---- MODULE Spec2Model ----
(***************************************************************************)
(* Model of the partner registry backend (apps/registry/partners).         *)
(*                                                                         *)
(* The database is one record of tables; a row's id is its index in the    *)
(* table.  Every HTTP request (and every direct service call) is handled   *)
(* in two phases, as the code does: a read phase (get_object, permission   *)
(* checks, serializer validation: SELECTs only) and a write phase (the     *)
(* INSERT/UPDATE statements, inside transaction.atomic() where the code    *)
(* opens one).  Requests of different clients interleave between the two   *)
(* phases; the in-memory model instance a request holds between them is    *)
(* kept in its slot of req.                                                *)
(***************************************************************************)
EXTENDS Integers, Sequences, FiniteSets, TLC

\* ---------------------------------------------------------------- bounds
MaxRequests == 4     \* requests (and admin actions) started in one behaviour
MaxApps == 2         \* rows of the application table
MaxPartners == 2     \* rows of the partner table
MaxPickupPoints == 2 \* rows of the pickup-point table
MaxMembers == 4      \* rows of the member table
MaxNotifications == 2 \* rows of the notification table

\* ---------------------------------------------------------------- domains
Slots == {"r1", "r2"}            \* requests in flight at the same time
Users == {"u1", "u2", "adm", "stf"}  \* authenticated accounts
Names == {"n1", "n2"}
Inns == {"i1", "i2"}
Ogrns == {"o1", "o2"}
Emails == {"e1"}
Phones == {"t1"}
Reasons == {"r1"}
NULL == "null"                   \* SQL NULL in a string column
NoId == 0                        \* SQL NULL in a foreign key
NoRow == [none |-> TRUE]
NoKeys == {}

\* auth.User.is_staff: adm is a staff superuser, stf is staff only
is_staff(u) == u \in {"adm", "stf"}

\* auth.User.is_superuser
is_superuser(u) == u = "adm"

Statuses == {"pending", "approved", "rejected"}

DefaultReason == "not_given"

\* timezone.now(): the time of processing, as one value
Now == "now"

VARIABLES db, req, response, nreq

vars == <<db, req, response, nreq>>

Idle == [pc |-> "idle", op |-> "none", user |-> NULL, id |-> NoId, row |-> NoRow]

Resp(op, code, keys) == [op |-> op, code |-> code, keys |-> keys]

Ids(table) == 1..Len(table)

\* rows a request in flight is about to insert into a table
InFlight(pc) == Cardinality({s \in Slots : req[s].pc = pc})

Init ==
    /\ db = [partners |-> <<>>, members |-> <<>>, apps |-> <<>>, pps |-> <<>>,
             configs |-> <<>>, notifications |-> <<>>]
    /\ req = [s \in Slots |-> Idle]
    /\ response = Resp("none", 0, NoKeys)
    /\ nreq = 0

\* a client starts a request in a free slot
Start(s) == req[s].pc = "idle" /\ nreq < MaxRequests

\* the request ends in its read phase: nothing is written
Refuse(s, op, code, keys) ==
    /\ response' = Resp(op, code, keys)
    /\ nreq' = nreq + 1
    /\ UNCHANGED <<db, req>>

\* the request passes its read phase and holds an in-memory instance
Proceed(s, pc, op, u, id, row) ==
    /\ req' = [req EXCEPT ![s] =
                  [pc |-> pc, op |-> op, user |-> u, id |-> id, row |-> row]]
    /\ nreq' = nreq + 1
    /\ UNCHANGED <<db, response>>

\* the request ends in its write phase
Finish(s, code, keys, newdb) ==
    /\ db' = newdb
    /\ req' = [req EXCEPT ![s] = Idle]
    /\ response' = Resp(req[s].op, code, keys)
    /\ UNCHANGED nreq

\* ------------------------------------------------------- table queries
\* Partner.objects.filter(inn=...).exclude(pk=...).exists()
PartnerInnExists(d, inn, except) ==
    \E p \in Ids(d.partners) : p # except /\ d.partners[p].inn = inn

PartnerOgrnExists(d, ogrn, except) ==
    \E p \in Ids(d.partners) : p # except /\ d.partners[p].ogrn = ogrn

\* UniqueValidator of PartnerApplication.inn / .ogrn (unique=True)
AppInnExists(d, inn, except) ==
    \E a \in Ids(d.apps) : a # except /\ d.apps[a].inn = inn

AppOgrnExists(d, ogrn, except) ==
    \E a \in Ids(d.apps) : a # except /\ d.apps[a].ogrn = ogrn

\* PartnerApplication.objects.filter(inn=...).exclude(user=user).exists()
OtherUserAppInnExists(d, inn, u) ==
    \E a \in Ids(d.apps) : d.apps[a].user # u /\ d.apps[a].inn = inn

\* HasPendingApp with a fault: any application of the user counts, whatever its status
HasPendingAppAnyStatus(d, u) == \E a \in Ids(d.apps) : d.apps[a].user = u

\* PartnerApplication.objects.filter(user=user, status='pending').exists()
HasPendingApp(d, u) ==
    \E a \in Ids(d.apps) : d.apps[a].user = u /\ d.apps[a].status = "pending"

\* ------------------------------------------------------- dict helpers
\* request.data restricted to the serializer's writable fields
Restrict(data, fields) == [k \in (DOMAIN data) \cap fields |-> data[k]]

\* ModelSerializer.update: setattr(instance, attr, value) for validated data
Merge(row, v) == [k \in DOMAIN row |-> IF k \in DOMAIN v THEN v[k] ELSE row[k]]

\* PartnerFromApp with a fault: contact email and phone exchanged
PartnerFromAppSwapped(app) ==
    [owner |-> app.user, name |-> app.company_name, inn |-> app.inn,
     ogrn |-> app.ogrn, email |-> app.contact_phone,
     phone |-> app.contact_email, validated |-> FALSE,
     validated_at |-> NULL]

\* ------------------------------------------------------- access filters
\* request.user of a request without credentials (AnonymousUser)
Anonymous == "anon"

\* every requester: the accounts and the anonymous user
Requesters == Users \cup {Anonymous}

\* user.is_authenticated
is_authenticated(u) == u # Anonymous

\* a deleted row keeps its primary key: the key is never used again
DeletedPartner ==
    [owner |-> NULL, name |-> NULL, inn |-> NULL, ogrn |-> NULL,
     email |-> NULL, phone |-> NULL, validated |-> FALSE,
     validated_at |-> NULL]

DeletedMember ==
    [partner |-> NoId, user |-> NULL, role |-> NULL,
     can_manage_members |-> FALSE, can_view_finance |-> FALSE,
     is_active |-> FALSE]

DeletedPickupPoint == [partner |-> NoId, name |-> NULL, is_active |-> FALSE]

DeletedConfig ==
    [partner |-> NoId, bot_token |-> NULL, chat_id |-> NULL,
     is_active |-> FALSE, validated_at |-> NULL]

DeletedNotification ==
    [partner |-> NoId, channel |-> NULL, status |-> NULL, sent_at |-> NULL,
     error_message |-> NULL]

\* the primary keys of the rows a table holds
PartnerIds(d) == {p \in Ids(d.partners) : d.partners[p] # DeletedPartner}

MemberIds(d) == {m \in Ids(d.members) : d.members[m] # DeletedMember}

PickupPointIds(d) == {q \in Ids(d.pps) : d.pps[q] # DeletedPickupPoint}

\* a Q object: None (no filtering), Q(pk__in=[]) (no rows), or a disjunction
\* of owner=..., user=... and partner in ...
NoFilter == [kind |-> "all"]

EmptyFilter == [kind |-> "none"]

\* get_partner_filter_for_user with a fault: staff sees every partner
PartnerFilterStaffAll(u) ==
    IF ~is_authenticated(u) THEN EmptyFilter
    ELSE IF is_superuser(u) \/ is_staff(u) THEN NoFilter
    ELSE [kind |-> "q", owner |-> u]

\* get_partner_filter_for_user
get_partner_filter_for_user(u) ==
    IF ~is_authenticated(u) THEN EmptyFilter
    ELSE IF is_superuser(u) THEN NoFilter
    ELSE [kind |-> "q", owner |-> u]

\* Partner.objects.for_user(user): the rows the filter selects
PartnerForUser(d, u) ==
    LET f == get_partner_filter_for_user(u)
    IN IF f.kind = "all" THEN PartnerIds(d)
       ELSE IF f.kind = "none" THEN {}
       ELSE {p \in PartnerIds(d) : d.partners[p].owner = f.owner}

\* get_partner_member_filter_for_user with a fault: any active membership
\* counts, with or without can_manage_members
MemberFilterAnyRight(d, u) ==
    IF ~is_authenticated(u) THEN EmptyFilter
    ELSE IF is_superuser(u) THEN NoFilter
    ELSE [kind |-> "q", owner |-> u, user |-> u,
          partners |-> {d.members[m].partner :
                          m \in {k \in MemberIds(d) :
                                   /\ d.members[k].user = u
                                   /\ d.members[k].is_active}}]

\* get_partner_member_filter_for_user with a fault: memberships that are no
\* longer active still count
MemberFilterAnyActivity(d, u) ==
    IF ~is_authenticated(u) THEN EmptyFilter
    ELSE IF is_superuser(u) THEN NoFilter
    ELSE [kind |-> "q", owner |-> u, user |-> u,
          partners |-> {d.members[m].partner :
                          m \in {k \in MemberIds(d) :
                                   /\ d.members[k].user = u
                                   /\ d.members[k].can_manage_members}}]

\* get_partner_member_filter_for_user: owner of the partner, or the user's
\* own membership, or a partner of one of the user's active memberships with
\* can_manage_members
get_partner_member_filter_for_user(d, u) ==
    IF ~is_authenticated(u) THEN EmptyFilter
    ELSE IF is_superuser(u) THEN NoFilter
    ELSE [kind |-> "q", owner |-> u, user |-> u,
          partners |-> {d.members[m].partner :
                          m \in {k \in MemberIds(d) :
                                   /\ d.members[k].user = u
                                   /\ d.members[k].can_manage_members
                                   /\ d.members[k].is_active}}]

\* PartnerMember.objects.for_user(user)
MemberForUser(d, u) ==
    LET f == get_partner_member_filter_for_user(d, u)
    IN IF f.kind = "all" THEN MemberIds(d)
       ELSE IF f.kind = "none" THEN {}
       ELSE {m \in MemberIds(d) :
               \/ d.partners[d.members[m].partner].owner = f.owner
               \/ d.members[m].user = f.user
               \/ d.members[m].partner \in f.partners}

\* check_partner_member_access
check_partner_member_access(d, u, member) ==
    IF ~is_authenticated(u) THEN FALSE
    ELSE IF is_superuser(u) THEN TRUE
    ELSE IF d.partners[member.partner].owner = u THEN TRUE
    ELSE IF member.user = u THEN TRUE
    ELSE \E k \in MemberIds(d) :
            /\ d.members[k].user = u
            /\ d.members[k].partner = member.partner
            /\ d.members[k].can_manage_members
            /\ d.members[k].is_active

\* check_partner_member_management_access with a fault: a membership that
\* was deactivated still gives the right
ManagementAccessAnyActivity(d, u, pid) ==
    IF ~is_authenticated(u) THEN FALSE
    ELSE IF is_superuser(u) THEN TRUE
    ELSE IF d.partners[pid].owner = u THEN TRUE
    ELSE \E k \in MemberIds(d) :
            /\ d.members[k].user = u
            /\ d.members[k].partner = pid
            /\ d.members[k].can_manage_members

\* check_partner_member_management_access
check_partner_member_management_access(d, u, pid) ==
    IF ~is_authenticated(u) THEN FALSE
    ELSE IF is_superuser(u) THEN TRUE
    ELSE IF d.partners[pid].owner = u THEN TRUE
    ELSE \E k \in MemberIds(d) :
            /\ d.members[k].user = u
            /\ d.members[k].partner = pid
            /\ d.members[k].can_manage_members
            /\ d.members[k].is_active

\* get_partner_application_filter_for_user
get_partner_application_filter_for_user(u) ==
    IF ~is_authenticated(u) THEN EmptyFilter
    ELSE IF is_superuser(u) THEN NoFilter
    ELSE [kind |-> "q", user |-> u]

\* PartnerApplication.objects.for_user(user)
ApplicationForUser(d, u) ==
    LET f == get_partner_application_filter_for_user(u)
    IN IF f.kind = "all" THEN Ids(d.apps)
       ELSE IF f.kind = "none" THEN {}
       ELSE {a \in Ids(d.apps) : d.apps[a].user = f.user}

\* check_partner_application_access
check_partner_application_access(u, app) ==
    IF ~is_authenticated(u) THEN FALSE
    ELSE IF is_superuser(u) THEN TRUE
    ELSE app.user = u

\* get_pickup_point_filter_for_user with a fault: a membership that was
\* deactivated still shows the pickup points of its partner
PickupFilterAnyActivity(d, u) ==
    IF ~is_authenticated(u) THEN EmptyFilter
    ELSE IF is_superuser(u) \/ is_staff(u) THEN NoFilter
    ELSE [kind |-> "q", owner |-> u,
          partners |-> {d.members[m].partner :
                          m \in {k \in MemberIds(d) : d.members[k].user = u}}]

\* get_pickup_point_filter_for_user: owner of the partner, or a partner of
\* one of the user's active memberships
get_pickup_point_filter_for_user(d, u) ==
    IF ~is_authenticated(u) THEN EmptyFilter
    ELSE IF is_superuser(u) \/ is_staff(u) THEN NoFilter
    ELSE [kind |-> "q", owner |-> u,
          partners |-> {d.members[m].partner :
                          m \in {k \in MemberIds(d) :
                                   /\ d.members[k].user = u
                                   /\ d.members[k].is_active}}]

\* PickupPoint.objects.for_user(user)
PickupPointForUser(d, u) ==
    LET f == get_pickup_point_filter_for_user(d, u)
    IN IF f.kind = "all" THEN PickupPointIds(d)
       ELSE IF f.kind = "none" THEN {}
       ELSE {q \in PickupPointIds(d) :
               \/ d.partners[d.pps[q].partner].owner = f.owner
               \/ d.pps[q].partner \in f.partners}

\* ------------------------------------------------------- partner rows
\* create_partner_from_application: partner_data built from the application;
\* owner is application.user; Partner.validated defaults to False
PartnerFromApp(app) ==
    [owner |-> app.user, name |-> app.company_name, inn |-> app.inn,
     ogrn |-> app.ogrn, email |-> app.contact_email,
     phone |-> app.contact_phone, validated |-> FALSE,
     validated_at |-> NULL]

\* PartnerSerializer.is_valid(): UniqueValidator of inn and ogrn, then
\* Partner.clean(): email or phone required, inn and ogrn not used by another
\* partner
PartnerErrors(d, prow, except) ==
    LET fieldKeys == {k \in {"inn", "ogrn"} :
                        \/ k = "inn" /\ PartnerInnExists(d, prow.inn, except)
                        \/ k = "ogrn" /\ PartnerOgrnExists(d, prow.ogrn, except)}
    IN IF fieldKeys # {} THEN fieldKeys
       ELSE IF prow.email = NULL /\ prow.phone = NULL THEN {"email"} ELSE {}

\* the unique indexes of Partner.inn and Partner.ogrn: the INSERT or UPDATE
\* raises IntegrityError when another row holds the value
PartnerUniqueViolation(d, prow, except) ==
    PartnerInnExists(d, prow.inn, except) \/ PartnerOgrnExists(d, prow.ogrn, except)

\* InsertPartner with a fault: a table without the unique indexes
InsertPartnerUnchecked(d, prow) ==
    [ok |-> TRUE, db |-> [d EXCEPT !.partners = Append(@, prow)]]

\* the INSERT of a partner row: the unique indexes of inn and ogrn refuse a
\* value another row holds
InsertPartner(d, prow) ==
    IF PartnerUniqueViolation(d, prow, NoId)
    THEN [ok |-> FALSE, db |-> d]
    ELSE [ok |-> TRUE, db |-> [d EXCEPT !.partners = Append(@, prow)]]

\* create_partner: the message of the IntegrityError decides the key
IntegrityKeys(d, prow, except) ==
    IF PartnerInnExists(d, prow.inn, except) THEN {"inn"} ELSE {"ogrn"}

\* partner rows that requests in flight will try to insert
PartnerInserts == InFlight("approve") + InFlight("partner_insert")

\* ------------------------------------------------------- applications
AppRow(u, n, i, o, e, t) ==
    [user |-> u, company_name |-> n, inn |-> i, ogrn |-> o,
     contact_email |-> e, contact_phone |-> t, status |-> "pending",
     processed_by |-> NULL, processed_at |-> NULL, rejection_reason |-> NULL,
     partner |-> NoId]

\* PartnerApplicationUserUpdateSerializer.Meta: fields without the read-only
\* status
UserWritable == {"company_name", "inn", "ogrn", "contact_email", "contact_phone"}

\* PartnerApplicationAdminSerializer.Meta: fields = '__all__'
AdminWritable == UserWritable \cup
    {"user", "status", "processed_by", "processed_at", "rejection_reason",
     "partner"}

\* get_partner_application_filter_for_user / IsAdminOrOwner
AppVisible(u, app) == is_superuser(u) \/ app.user = u

\* UniqueValidator of inn and ogrn on the serializer fields
AppFieldErrors(d, v, except) ==
    {k \in {"inn", "ogrn"} :
        \/ k = "inn" /\ "inn" \in DOMAIN v /\ AppInnExists(d, v.inn, except)
        \/ k = "ogrn" /\ "ogrn" \in DOMAIN v /\ AppOgrnExists(d, v.ogrn, except)}

\* PartnerApplicationValidationMixin.validate_inn_uniqueness
InnUniquenessErrors(d, v, u) ==
    IF "inn" \in DOMAIN v /\ (\/ PartnerInnExists(d, v.inn, NoId)
                              \/ OtherUserAppInnExists(d, v.inn, u))
    THEN {"inn"} ELSE {}

\* is_valid() of the create and of the user-update serializer
AppUserErrors(d, v, u, except) ==
    IF AppFieldErrors(d, v, except) # {} THEN AppFieldErrors(d, v, except)
    ELSE InnUniquenessErrors(d, v, u)

\* is_valid() of the admin serializer: the field validators only
AppAdminErrors(d, v, except) == AppFieldErrors(d, v, except)

\* POST /applications/: create() and perform_create(), read phase
AppCreateRead(s, u, n, i, o, e, t) ==
    /\ Start(s)
    /\ Len(db.apps) + InFlight("app_insert") < MaxApps
    /\ LET v == [company_name |-> n, inn |-> i, ogrn |-> o,
                 contact_email |-> e, contact_phone |-> t]
           errs == AppUserErrors(db, v, u, NoId)
       IN IF errs # {} THEN Refuse(s, "app_create", 400, errs)
          ELSE IF HasPendingApp(db, u) THEN Refuse(s, "app_create", 400, {"detail"})
          ELSE Proceed(s, "app_insert", "app_create", u, NoId, AppRow(u, n, i, o, e, t))

\* serializer.save(user=user): the INSERT; the unique indexes of inn and ogrn
\* raise IntegrityError, which perform_create does not catch
AppCreateWrite(s) ==
    /\ req[s].pc = "app_insert"
    /\ LET row == req[s].row
       IN IF AppInnExists(db, row.inn, NoId) \/ AppOgrnExists(db, row.ogrn, NoId)
          THEN Finish(s, 500, NoKeys, db)
          ELSE Finish(s, 201, NoKeys, [db EXCEPT !.apps = Append(@, row)])

\* ApproveErrors with a fault: no status check
ApproveErrorsNoStatus(d, app) == PartnerErrors(d, PartnerFromApp(app), NoId)

\* ------------------------------------------------------- approval service
\* approve_partner_application, up to the INSERT of the partner: the status
\* check on the instance the caller holds, then PartnerSerializer.is_valid()
\* in create_partner
ApproveErrors(d, app) ==
    IF app.status # "pending" THEN {"status"}
    ELSE PartnerErrors(d, PartnerFromApp(app), NoId)

\* reject_partner_application: the status check on the instance the caller
\* holds
RejectErrors(app) == IF app.status # "pending" THEN {"status"} ELSE {}

\* read phase of an approval of the instance app by admin_user x
ApproveRead(s, op, x, id, app) ==
    IF ApproveErrors(db, app) # {}
    THEN Refuse(s, op, 400, ApproveErrors(db, app))
    ELSE /\ Len(db.partners) + PartnerInserts < MaxPartners
         /\ Proceed(s, "approve", op, x, id, app)

\* read phase of a rejection; update_application_status sets the new values
\* on the instance: rejection_reason only when the reason is not empty
RejectRead(s, op, x, id, app, reason) ==
    IF RejectErrors(app) # {}
    THEN Refuse(s, op, 400, RejectErrors(app))
    ELSE Proceed(s, "reject", op, x, id,
                 [app EXCEPT !.status = "rejected", !.processed_by = x,
                             !.processed_at = Now,
                             !.rejection_reason =
                                 IF reason # "" THEN reason ELSE @])

\* create_initial_partner_member: serializer.save() stores the director with
\* the model defaults of the two rights
MemberRow(pid, u) ==
    [partner |-> pid, user |-> u, role |-> "director",
     can_manage_members |-> FALSE, can_view_finance |-> FALSE,
     is_active |-> TRUE]

\* PartnerMember.clean(): director and admin get both rights; written by
\* member.save(update_fields=['can_manage_members', 'can_view_finance'])
CleanMember(m) ==
    IF m.role \in {"director", "admin"}
    THEN [m EXCEPT !.can_manage_members = TRUE, !.can_view_finance = TRUE]
    ELSE m

\* update_application_status(application, 'approved', admin_user):
\* save(update_fields=['status', 'processed_at', 'processed_by',
\* 'rejection_reason']) writes these columns from the instance
StatusUpdate(d, id, inst) ==
    [d EXCEPT !.apps[id] = [@ EXCEPT !.status = inst.status,
                                     !.processed_at = inst.processed_at,
                                     !.processed_by = inst.processed_by,
                                     !.rejection_reason = inst.rejection_reason]]

\* the database states after each statement of the approval transaction:
\* 1 INSERT partner, 2 INSERT member, 3 UPDATE member rights, 4 UPDATE status,
\* 5 UPDATE partner link (index k+1 is the state after statement k)
ApproveStates(d, id, inst, x) ==
    LET pid == Len(d.partners) + 1
        mid == Len(d.members) + 1
        d1 == InsertPartner(d, PartnerFromApp(inst)).db
        d2 == [d1 EXCEPT !.members = Append(@, MemberRow(pid, inst.user))]
        d3 == [d2 EXCEPT !.members[mid] = CleanMember(@)]
        d4 == StatusUpdate(d3, id, [inst EXCEPT !.status = "approved",
                                                !.processed_at = Now,
                                                !.processed_by = x])
        d5 == [d4 EXCEPT !.apps[id].partner = pid]
    IN <<d, d1, d2, d3, d4, d5>>

\* a database error at statement k of a transaction (0: none)
Faults == 0..5

\* Atomic with a fault: the statements before the failing one stay in effect
AtomicNoRollback(states, failAt) ==
    IF failAt = 0 THEN states[Len(states)] ELSE states[failAt]

\* with transaction.atomic(): the statements take effect together at the end
\* of the block, and none does when statement failAt raises
Atomic(states, failAt) ==
    IF failAt = 0 THEN states[Len(states)] ELSE states[1]

\* response to an error raised by statement k of the approval: IntegrityError
\* of the partner and member INSERTs becomes a ValidationError, any other
\* database error is not caught
FaultCode(k) == IF k \in {1, 2, 3} THEN 400 ELSE 500

\* write phase of approve_partner_application
ApproveWrite(s, fault) ==
    /\ req[s].pc = "approve"
    /\ LET inst == req[s].row
           prow == PartnerFromApp(inst)
           states == ApproveStates(db, req[s].id, inst, req[s].user)
       IN IF ~InsertPartner(db, prow).ok
          THEN Finish(s, 400, IntegrityKeys(db, prow, NoId), Atomic(states, 1))
          ELSE IF fault # 0
          THEN Finish(s, FaultCode(fault), {"detail"}, Atomic(states, fault))
          ELSE Finish(s, 200, NoKeys, Atomic(states, 0))

\* write phase of reject_partner_application
RejectWrite(s) ==
    /\ req[s].pc = "reject"
    /\ Finish(s, 200, NoKeys, StatusUpdate(db, req[s].id, req[s].row))

\* approve_partner_application(application, admin_user) called directly with
\* an instance read from the database
ServiceApprove(s, x, id) ==
    /\ Start(s)
    /\ id \in Ids(db.apps)
    /\ ApproveRead(s, "svc_approve", x, id, db.apps[id])

\* reject_partner_application(application, admin_user, reason) called directly
ServiceReject(s, x, id, reason) ==
    /\ Start(s)
    /\ id \in Ids(db.apps)
    /\ RejectRead(s, "svc_reject", x, id, db.apps[id], reason)

\* ------------------------------------------------------- application API
\* bodies of PATCH requests
PatchData ==
    {[company_name |-> "n2"]}
    \cup {[inn |-> i, ogrn |-> o] : i \in Inns, o \in Ogrns}
    \cup {[status |-> st] : st \in Statuses}
    \cup {[status |-> "rejected", rejection_reason |-> r] : r \in Reasons}
    \cup {[status |-> "pending", inn |-> i, ogrn |-> o] : i \in Inns, o \in Ogrns}

\* bodies of PUT requests: every required field of the user serializer, with
\* or without a status, with or without the user the admin serializer requires
PutBase ==
    {[company_name |-> "n2", inn |-> io[1], ogrn |-> io[2],
      contact_email |-> "e1", contact_phone |-> "t1"] :
        io \in {<<"i1", "o1">>, <<"i2", "o2">>}}

PutData ==
    PutBase
    \cup {[k \in DOMAIN b \cup {"status", "user"} |->
             IF k = "status" THEN st ELSE IF k = "user" THEN "u1" ELSE b[k]] :
             b \in PutBase, st \in Statuses}

\* request.data.get('rejection_reason', '').strip(), 'Не указана' when empty
RejectionReason(data) ==
    LET given == IF "rejection_reason" \in DOMAIN data
                 THEN data.rejection_reason ELSE ""
    IN IF given = "" THEN DefaultReason ELSE given

\* get_serializer_class: the writable fields of the serializer chosen by
\* is_staff
Writable(u) == IF is_staff(u) THEN AdminWritable ELSE UserWritable

\* is_valid() of the serializer chosen by is_staff
AppUpdateErrors(d, v, u, id) ==
    IF is_staff(u) THEN AppAdminErrors(d, v, id) ELSE AppUserErrors(d, v, u, id)

\* PartnerApplicationViewSet.partial_update, read phase
AppPatchRead(s, u, id, data) ==
    /\ Start(s)
    /\ IF id \notin Ids(db.apps) \/ ~AppVisible(u, db.apps[id])
       THEN Refuse(s, "app_patch", 404, NoKeys)
       ELSE LET app == db.apps[id]
                v == Restrict(data, Writable(u))
                errs == AppUpdateErrors(db, v, u, id)
            IN IF ~is_staff(u) /\ app.status # "pending"
               THEN Refuse(s, "app_patch", 403, NoKeys)
               ELSE IF /\ ~is_staff(u)
                       /\ "status" \in DOMAIN data
                       /\ data.status # app.status
               THEN Refuse(s, "app_patch", 403, NoKeys)
               ELSE IF errs # {}
               THEN Refuse(s, "app_patch", 400, errs)
               ELSE IF "status" \in DOMAIN v /\ ~is_staff(u)
               THEN Refuse(s, "app_patch", 403, NoKeys)
               ELSE IF "status" \in DOMAIN v /\ v.status = "approved"
               THEN ApproveRead(s, "app_patch", u, id, app)
               ELSE IF "status" \in DOMAIN v /\ v.status = "rejected"
               THEN RejectRead(s, "app_patch", u, id, app, RejectionReason(data))
               ELSE Proceed(s, "app_save", "app_patch", u, id, Merge(app, v))

\* UpdateModelMixin.update (PUT): partial_update's checks are not on this path
AppPutRead(s, u, id, data) ==
    /\ Start(s)
    /\ IF id \notin Ids(db.apps) \/ ~AppVisible(u, db.apps[id])
       THEN Refuse(s, "app_put", 404, NoKeys)
       ELSE LET app == db.apps[id]
                v == Restrict(data, Writable(u))
                errs == AppUpdateErrors(db, v, u, id)
            IN IF is_staff(u) /\ "user" \notin DOMAIN v
               THEN Refuse(s, "app_put", 400, {"user"})
               ELSE IF errs # {}
               THEN Refuse(s, "app_put", 400, errs)
               ELSE Proceed(s, "app_save", "app_put", u, id, Merge(app, v))

\* serializer.save(): instance.save() writes every column of the row from the
\* instance; the unique indexes of inn and ogrn raise IntegrityError
AppSaveWrite(s) ==
    /\ req[s].pc = "app_save"
    /\ LET row == req[s].row
           id == req[s].id
       IN IF AppInnExists(db, row.inn, id) \/ AppOgrnExists(db, row.ogrn, id)
          THEN Finish(s, 500, NoKeys, db)
          ELSE Finish(s, 200, NoKeys, [db EXCEPT !.apps[id] = row])

\* ------------------------------------------------------- partner API
\* get_partner_filter_for_user / check_partner_access
check_partner_access(u, partner) ==
    is_authenticated(u) /\ (is_superuser(u) \/ partner.owner = u)

PartnerRow(u, n, i, o, e, t) ==
    [owner |-> u, name |-> n, inn |-> i, ogrn |-> o, email |-> e,
     phone |-> t, validated |-> FALSE,
     validated_at |-> NULL]

\* PartnerSerializer.Meta: owner, validated and validated_at are read-only
PartnerWritable == {"name", "inn", "ogrn", "email", "phone"}

\* PartnerViewSet.create with the request body data: the serializer drops
\* the read-only fields, perform_create passes owner=request.user
PartnerCreateBodyRead(s, u, data) ==
    /\ Start(s)
    /\ LET prow == Merge(PartnerRow(u, NULL, NULL, NULL, NULL, NULL),
                         Restrict(data, PartnerWritable))
       IN IF ~is_authenticated(u)
          THEN Refuse(s, "partner_create", 401, {"detail"})
          ELSE IF \E k \in {"name", "inn", "ogrn"} : prow[k] = NULL
          THEN Refuse(s, "partner_create", 400,
                      {k \in {"name", "inn", "ogrn"} : prow[k] = NULL})
          ELSE IF PartnerErrors(db, prow, NoId) # {}
          THEN Refuse(s, "partner_create", 400, PartnerErrors(db, prow, NoId))
          ELSE /\ Len(db.partners) + PartnerInserts < MaxPartners
               /\ Proceed(s, "partner_insert", "partner_create", u, NoId, prow)

\* PartnerViewSet.create: is_valid(), read phase
PartnerCreateRead(s, u, n, i, o, e, t) ==
    /\ Start(s)
    /\ LET prow == PartnerRow(u, n, i, o, e, t)
       IN IF PartnerErrors(db, prow, NoId) # {}
          THEN Refuse(s, "partner_create", 400, PartnerErrors(db, prow, NoId))
          ELSE /\ Len(db.partners) + PartnerInserts < MaxPartners
               /\ Proceed(s, "partner_insert", "partner_create", u, NoId, prow)

\* create_partner(data, owner) called directly, read phase
ServiceCreatePartner(s, u, n, i, o, e, t) ==
    /\ Start(s)
    /\ LET prow == PartnerRow(u, n, i, o, e, t)
       IN IF PartnerErrors(db, prow, NoId) # {}
          THEN Refuse(s, "svc_create_partner", 400, PartnerErrors(db, prow, NoId))
          ELSE /\ Len(db.partners) + PartnerInserts < MaxPartners
               /\ Proceed(s, "partner_insert", "svc_create_partner", u, NoId, prow)

\* perform_create / create_partner: serializer.save(owner=...) in
\* transaction.atomic(); IntegrityError becomes a ValidationError
PartnerCreateWrite(s) ==
    /\ req[s].pc = "partner_insert"
    /\ LET res == InsertPartner(db, req[s].row)
       IN IF res.ok THEN Finish(s, 201, NoKeys, res.db)
          ELSE Finish(s, 400,
                      IF req[s].op = "partner_create" THEN {"non_field_errors"}
                      ELSE IntegrityKeys(db, req[s].row, NoId),
                      res.db)

\* bodies of PATCH requests on a partner
PartnerPatchData ==
    {[name |-> n] : n \in Names}
    \cup {[inn |-> i, ogrn |-> o] : i \in Inns, o \in Ogrns}
    \cup {[name |-> n, validated |-> TRUE] : n \in Names}

\* PartnerViewSet update / partial_update, read phase: IsAuthenticated,
\* get_object() on get_queryset(), IsOwnerOrAdmin, then is_valid()
PartnerPatchRead(s, u, id, data) ==
    /\ Start(s)
    /\ IF ~is_authenticated(u)
       THEN Refuse(s, "partner_patch", 401, {"detail"})
       ELSE IF id \notin PartnerForUser(db, u)
       THEN Refuse(s, "partner_patch", 404, NoKeys)
       ELSE IF ~check_partner_access(u, db.partners[id])
       THEN Refuse(s, "partner_patch", 403, {"detail"})
       ELSE LET obj == Merge(db.partners[id], Restrict(data, PartnerWritable))
            IN IF PartnerErrors(db, obj, id) # {}
               THEN Refuse(s, "partner_patch", 400, PartnerErrors(db, obj, id))
               ELSE Proceed(s, "partner_save", "partner_patch", u, id, obj)

\* perform_update: serializer.save() writes every column of the row from the
\* instance; IntegrityError becomes a ValidationError
PartnerSaveWrite(s) ==
    /\ req[s].pc = "partner_save"
    /\ IF PartnerUniqueViolation(db, req[s].row, req[s].id)
       THEN Finish(s, 400, {"non_field_errors"}, db)
       ELSE Finish(s, 200, NoKeys, [db EXCEPT !.partners[req[s].id] = req[s].row])

\* PartnerViewSet.retrieve: the request ends with the serialized row
PartnerRetrieve(s, u, id) ==
    /\ Start(s)
    /\ IF ~is_authenticated(u)
       THEN Refuse(s, "partner_retrieve", 401, {"detail"})
       ELSE IF id \notin PartnerForUser(db, u)
       THEN Refuse(s, "partner_retrieve", 404, NoKeys)
       ELSE IF ~check_partner_access(u, db.partners[id])
       THEN Refuse(s, "partner_retrieve", 403, {"detail"})
       ELSE Refuse(s, "partner_retrieve", 200, NoKeys)

\* PartnerViewSet.destroy, read phase
PartnerDeleteRead(s, u, id) ==
    /\ Start(s)
    /\ IF ~is_authenticated(u)
       THEN Refuse(s, "partner_delete", 401, {"detail"})
       ELSE IF id \notin PartnerForUser(db, u)
       THEN Refuse(s, "partner_delete", 404, NoKeys)
       ELSE IF ~check_partner_access(u, db.partners[id])
       THEN Refuse(s, "partner_delete", 403, {"detail"})
       ELSE Proceed(s, "partner_delete", "partner_delete", u, id,
                    db.partners[id])

\* instance.delete(): the row goes; memberships, pickup points, Telegram
\* configuration and notifications of the partner go with it (CASCADE),
\* applications lose their link (SET_NULL)
DeletePartner(d, id) ==
    [partners |-> [d.partners EXCEPT ![id] = DeletedPartner],
     members |-> [m \in Ids(d.members) |->
                    IF d.members[m].partner = id THEN DeletedMember
                    ELSE d.members[m]],
     apps |-> [a \in Ids(d.apps) |->
                 IF d.apps[a].partner = id
                 THEN [d.apps[a] EXCEPT !.partner = NoId]
                 ELSE d.apps[a]],
     pps |-> [q \in Ids(d.pps) |->
                IF d.pps[q].partner = id THEN DeletedPickupPoint
                ELSE d.pps[q]],
     configs |-> [c \in Ids(d.configs) |->
                    IF d.configs[c].partner = id THEN DeletedConfig
                    ELSE d.configs[c]],
     notifications |-> [n \in Ids(d.notifications) |->
                          IF d.notifications[n].partner = id
                          THEN DeletedNotification
                          ELSE d.notifications[n]]]

\* perform_destroy: instance.delete()
PartnerDeleteWrite(s) ==
    /\ req[s].pc = "partner_delete"
    /\ Finish(s, 204, NoKeys, DeletePartner(db, req[s].id))

\* PartnerAdmin.mark_as_validated / mark_as_not_validated:
\* queryset.update(validated=...) on the selected rows
AdminMarkValidated(ids, value) ==
    /\ nreq < MaxRequests
    /\ ids # {}
    /\ db' = [db EXCEPT !.partners =
                [p \in Ids(db.partners) |->
                    IF p \in ids THEN [db.partners[p] EXCEPT !.validated = value]
                    ELSE db.partners[p]]]
    /\ response' = Resp("admin_mark", 200, NoKeys)
    /\ nreq' = nreq + 1
    /\ UNCHANGED req

\* ------------------------------------------------------- pickup points
\* validate_partner_pickup_point_access: access to the partner and
\* partner.validated
validate_partner_pickup_point_access(u, partner) ==
    check_partner_access(u, partner) /\ partner.validated

\* an active membership of u in partner pid
ActiveMember(d, u, pid) ==
    \E m \in Ids(d.members) :
        /\ d.members[m].user = u
        /\ d.members[m].partner = pid
        /\ d.members[m].is_active

\* get_pickup_point_filter_for_user / check_pickup_point_access
check_pickup_point_access(d, u, pp) ==
    /\ is_authenticated(u)
    /\ \/ is_superuser(u) \/ is_staff(u)
       \/ d.partners[pp.partner].owner = u
       \/ ActiveMember(d, u, pp.partner)

\* check_pickup_point_crud_access with a fault: an active member of the
\* partner is granted what the owner is
CrudAccessForMembers(d, u, pp) ==
    /\ is_authenticated(u)
    /\ \/ is_superuser(u) \/ is_staff(u)
       \/ d.partners[pp.partner].owner = u
       \/ ActiveMember(d, u, pp.partner)

\* check_pickup_point_crud_access
check_pickup_point_crud_access(d, u, pp) ==
    /\ is_authenticated(u)
    /\ \/ is_superuser(u) \/ is_staff(u)
       \/ d.partners[pp.partner].owner = u

\* PickupPoint.objects.filter(partner_id=..., name=...).exclude(pk=...).exists()
PickupPointNameExists(d, pid, name, except) ==
    \E q \in Ids(d.pps) :
        q # except /\ d.pps[q].partner = pid /\ d.pps[q].name = name

\* PickupPoint.clean(): the partner must be validated, the name unique within
\* the partner (name, address and work_schedule are given)
PickupPointCleanErrors(d, obj, except) ==
    {k \in {"partner", "name"} :
        \/ k = "partner" /\ ~d.partners[obj.partner].validated
        \/ k = "name" /\ PickupPointNameExists(d, obj.partner, obj.name, except)}

\* PickupPointErrors with a fault: access to the partner is checked, its validation is not
PickupPointErrorsNoValidated(d, u, obj, except, partnerGiven) ==
    IF obj.partner \notin PartnerIds(d) THEN {"partner"}
    ELSE IF partnerGiven /\ ~check_partner_access(u, d.partners[obj.partner])
    THEN {"partner"}
    ELSE IF PickupPointNameExists(d, obj.partner, obj.name, except)
    THEN {"name"}
    ELSE IF ~check_partner_access(u, d.partners[obj.partner])
    THEN {"partner"}
    ELSE {}

\* the errors of a create or update of the instance obj by user u:
\* PickupPointSerializer.validate_partner when the body names a partner, then
\* validate() with PickupPoint.clean(), then the check of perform_create /
\* perform_update
PickupPointErrors(d, u, obj, except, partnerGiven) ==
    IF obj.partner \notin PartnerIds(d) THEN {"partner"}
    ELSE IF /\ partnerGiven
            /\ ~validate_partner_pickup_point_access(u, d.partners[obj.partner])
    THEN {"partner"}
    ELSE IF PickupPointCleanErrors(d, obj, except) # {}
    THEN PickupPointCleanErrors(d, obj, except)
    ELSE IF ~validate_partner_pickup_point_access(u, d.partners[obj.partner])
    THEN {"partner"}
    ELSE {}

\* PickupPointViewSet.create and perform_create, read phase
PickupPointCreateRead(s, u, pid, name) ==
    /\ Start(s)
    /\ Len(db.pps) + InFlight("pp_insert") < MaxPickupPoints
    /\ LET obj == [partner |-> pid, name |-> name, is_active |-> TRUE]
           errs == PickupPointErrors(db, u, obj, NoId, TRUE)
       IN IF ~is_authenticated(u) THEN Refuse(s, "pp_create", 401, {"detail"})
          ELSE IF errs # {} THEN Refuse(s, "pp_create", 400, errs)
          ELSE Proceed(s, "pp_insert", "pp_create", u, NoId, obj)

\* serializer.save(): the INSERT
PickupPointCreateWrite(s) ==
    /\ req[s].pc = "pp_insert"
    /\ Finish(s, 201, NoKeys, [db EXCEPT !.pps = Append(@, req[s].row)])

\* bodies of PUT and PATCH requests on a pickup point
PickupPointData ==
    {[name |-> n] : n \in Names}
    \cup {[is_active |-> b] : b \in BOOLEAN}
    \cup {[partner |-> p] : p \in 1..MaxPartners}
    \cup {[partner |-> p, name |-> n] : p \in 1..MaxPartners, n \in Names}

\* PickupPointViewSet update / partial_update and perform_update, read phase
PickupPointUpdateRead(s, u, id, data) ==
    /\ Start(s)
    /\ IF ~is_authenticated(u)
       THEN Refuse(s, "pp_update", 401, {"detail"})
       ELSE IF id \notin PickupPointForUser(db, u)
       THEN Refuse(s, "pp_update", 404, NoKeys)
       ELSE IF ~check_pickup_point_crud_access(db, u, db.pps[id])
       THEN Refuse(s, "pp_update", 403, NoKeys)
       ELSE LET obj == Merge(db.pps[id], data)
                errs == PickupPointErrors(db, u, obj, id, "partner" \in DOMAIN data)
            IN IF errs # {} THEN Refuse(s, "pp_update", 400, errs)
               ELSE Proceed(s, "pp_save", "pp_update", u, id, obj)

\* serializer.save(): instance.save() writes every column of the row
PickupPointUpdateWrite(s) ==
    /\ req[s].pc = "pp_save"
    /\ Finish(s, 200, NoKeys, [db EXCEPT !.pps[req[s].id] = req[s].row])

\* the activate and deactivate actions, read phase: get_object with the
\* object permission, then is_active set on the instance
PickupPointSetActiveRead(s, u, id, value) ==
    /\ Start(s)
    /\ LET op == IF value THEN "pp_activate" ELSE "pp_deactivate"
       IN IF ~is_authenticated(u)
          THEN Refuse(s, op, 401, {"detail"})
          ELSE IF id \notin PickupPointForUser(db, u)
          THEN Refuse(s, op, 404, NoKeys)
          ELSE IF ~check_pickup_point_crud_access(db, u, db.pps[id])
          THEN Refuse(s, op, 403, NoKeys)
          ELSE Proceed(s, "pp_save", op, u, id,
                       [db.pps[id] EXCEPT !.is_active = value])

\* PickupPointViewSet.destroy and perform_destroy, read phase: get_object()
\* with IsPickupPointOwnerOrAdmin, then the check of perform_destroy
PickupPointDeleteRead(s, u, id) ==
    /\ Start(s)
    /\ IF ~is_authenticated(u)
       THEN Refuse(s, "pp_delete", 401, {"detail"})
       ELSE IF id \notin PickupPointForUser(db, u)
       THEN Refuse(s, "pp_delete", 404, NoKeys)
       ELSE IF ~check_pickup_point_crud_access(db, u, db.pps[id])
       THEN Refuse(s, "pp_delete", 403, NoKeys)
       ELSE Proceed(s, "pp_delete", "pp_delete", u, id, db.pps[id])

\* instance.delete()
PickupPointDeleteWrite(s) ==
    /\ req[s].pc = "pp_delete"
    /\ Finish(s, 204, NoKeys, [db EXCEPT !.pps[req[s].id] = DeletedPickupPoint])

\* ------------------------------------------------------- member API
Roles == {"employee", "manager", "director", "accountant", "admin"}

\* the model defaults of a membership: role employee, no rights, active
MemberDefaults ==
    [partner |-> NoId, user |-> NULL, role |-> "employee",
     can_manage_members |-> FALSE, can_view_finance |-> FALSE,
     is_active |-> TRUE]

\* PartnerMemberSerializer.Meta.fields without the read-only ones
MemberWritable ==
    {"partner", "user", "role", "can_manage_members", "can_view_finance",
     "is_active"}

\* PartnerMember.clean(): the errors it raises (name and contact are given
\* in every request); the owner of the partner may only be director or admin
MemberCleanErrors(d, obj) ==
    IF /\ obj.user # NULL
       /\ obj.user = d.partners[obj.partner].owner
       /\ obj.role \notin {"director", "admin"}
    THEN {"user"} ELSE {}

\* field validation of 'partner': the primary key exists and
\* validate_partner grants check_partner_access
MemberPartnerErrors(d, u, data) ==
    IF "partner" \notin DOMAIN data THEN {}
    ELSE IF data.partner \notin PartnerIds(d) THEN {"partner"}
    ELSE IF ~check_partner_access(u, d.partners[data.partner])
    THEN {"partner"} ELSE {}

\* PartnerMemberViewSet.create: is_valid() and the check of perform_create
MemberCreateRead(s, u, data) ==
    /\ Start(s)
    /\ LET attrs == Restrict(data, MemberWritable)
           obj == Merge(MemberDefaults, attrs)
       IN IF ~is_authenticated(u)
          THEN Refuse(s, "member_create", 401, {"detail"})
          ELSE IF "partner" \notin DOMAIN attrs
          THEN Refuse(s, "member_create", 400, {"partner"})
          ELSE IF MemberPartnerErrors(db, u, attrs) # {}
          THEN Refuse(s, "member_create", 400, MemberPartnerErrors(db, u, attrs))
          ELSE IF MemberCleanErrors(db, obj) # {}
          THEN Refuse(s, "member_create", 400, MemberCleanErrors(db, obj))
          ELSE IF ~check_partner_member_management_access(db, u, obj.partner)
          THEN Refuse(s, "member_create", 400, {"partner"})
          ELSE /\ Len(db.members) + InFlight("member_insert") < MaxMembers
               /\ Proceed(s, "member_insert", "member_create", u, NoId, obj)

\* serializer.save() of a create: PartnerMember(**validated_data).save(); the
\* rights clean() set on the object validate() built are not in validated_data
MemberCreateWrite(s) ==
    /\ req[s].pc = "member_insert"
    /\ Finish(s, 201, NoKeys, [db EXCEPT !.members = Append(@, req[s].row)])

\* validate() of an update sets the attributes on the instance and calls
\* clean(); serializer.update() then sets the attributes again
MemberUpdated(inst, attrs) == Merge(CleanMember(Merge(inst, attrs)), attrs)

\* PartnerMemberViewSet update (PUT) / partial_update (PATCH), read phase
MemberUpdateRead(s, u, id, data, partial) ==
    /\ Start(s)
    /\ LET op == IF partial THEN "member_patch" ELSE "member_put"
           attrs == Restrict(data, MemberWritable)
       IN IF ~is_authenticated(u)
          THEN Refuse(s, op, 401, {"detail"})
          ELSE IF id \notin MemberForUser(db, u)
          THEN Refuse(s, op, 404, NoKeys)
          ELSE IF ~check_partner_member_access(db, u, db.members[id])
          THEN Refuse(s, op, 403, {"detail"})
          ELSE IF ~partial /\ "partner" \notin DOMAIN attrs
          THEN Refuse(s, op, 400, {"partner"})
          ELSE IF MemberPartnerErrors(db, u, attrs) # {}
          THEN Refuse(s, op, 400, MemberPartnerErrors(db, u, attrs))
          ELSE IF MemberCleanErrors(db, Merge(db.members[id], attrs)) # {}
          THEN Refuse(s, op, 400,
                      MemberCleanErrors(db, Merge(db.members[id], attrs)))
          ELSE Proceed(s, "member_save", op, u, id,
                       MemberUpdated(db.members[id], attrs))

\* PartnerMemberViewSet.activate / deactivate, read phase
MemberSetActiveRead(s, u, id, value) ==
    /\ Start(s)
    /\ LET op == IF value THEN "member_activate" ELSE "member_deactivate"
       IN IF ~is_authenticated(u)
          THEN Refuse(s, op, 401, {"detail"})
          ELSE IF id \notin MemberForUser(db, u)
          THEN Refuse(s, op, 404, NoKeys)
          ELSE IF ~check_partner_member_access(db, u, db.members[id])
          THEN Refuse(s, op, 403, {"detail"})
          ELSE IF ~check_partner_member_management_access(
                       db, u, db.members[id].partner)
          THEN Refuse(s, op, 400, {"detail"})
          ELSE Proceed(s, "member_save", op, u, id,
                       [db.members[id] EXCEPT !.is_active = value])

\* member.save() / serializer.save() of an update: every column of the row
\* is written from the instance
MemberSaveWrite(s) ==
    /\ req[s].pc = "member_save"
    /\ Finish(s, 200, NoKeys, [db EXCEPT !.members[req[s].id] = req[s].row])

\* ------------------------------------------------------- notifications
\* channel arguments: 'sms' is a choice of Notification.channel that
\* send_to_partner does not support
Channels == {"telegram", "email", "sms"}

\* settings.TELEGRAM_BOT_TOKEN: not set
GlobalBotToken == NULL

\* TelegramConfig.objects.get(partner_id=..., is_active=True) finds a row
ActiveConfig(d, pid) ==
    \E c \in Ids(d.configs) :
        d.configs[c].partner = pid /\ d.configs[c].is_active

\* bot_token of the active configuration of partner pid
ActiveToken(d, pid) ==
    LET c == CHOOSE c \in Ids(d.configs) :
                 d.configs[c].partner = pid /\ d.configs[c].is_active
    IN d.configs[c].bot_token

\* PartnerViewSet.set_telegram_config: the configuration of the partner is
\* created, or updated with the fields of the body
SetTelegramConfig(u, id, active) ==
    /\ nreq < MaxRequests
    /\ nreq' = nreq + 1
    /\ UNCHANGED req
    /\ IF ~is_authenticated(u)
       THEN /\ response' = Resp("set_telegram_config", 401, {"detail"})
            /\ UNCHANGED db
       ELSE IF id \notin PartnerForUser(db, u)
       THEN /\ response' = Resp("set_telegram_config", 404, NoKeys)
            /\ UNCHANGED db
       ELSE IF ~check_partner_access(u, db.partners[id])
       THEN /\ response' = Resp("set_telegram_config", 403, {"detail"})
            /\ UNCHANGED db
       ELSE /\ response' = Resp("set_telegram_config", 200, NoKeys)
            /\ db' = IF \E c \in Ids(db.configs) : db.configs[c].partner = id
                     THEN [db EXCEPT !.configs =
                              [c \in Ids(db.configs) |->
                                 IF db.configs[c].partner = id
                                 THEN [db.configs[c] EXCEPT !.is_active = active]
                                 ELSE db.configs[c]]]
                     ELSE [db EXCEPT !.configs =
                              Append(@, [partner |-> id, bot_token |-> "tok",
                                         chat_id |-> "chat",
                                         is_active |-> active,
                                         validated_at |-> NULL])]

\* Notification.objects.create(partner_id, channel, subject, message,
\* status='pending')
NotificationRow(pid, channel) ==
    [partner |-> pid, channel |-> channel, status |-> "pending",
     sent_at |-> NULL, error_message |-> NULL]

\* send_to_partner, first statement: the INSERT of the pending record; for
\* a partner that does not exist the foreign key raises IntegrityError
SendCreate(s, pid, channel) ==
    /\ Start(s)
    /\ IF pid \notin PartnerIds(db)
       THEN Refuse(s, "send_to_partner", 500, {"detail"})
       ELSE /\ Len(db.notifications) < MaxNotifications
            /\ db' = [db EXCEPT !.notifications =
                         Append(@, NotificationRow(pid, channel))]
            /\ req' = [req EXCEPT ![s] =
                          [pc |-> "notify", op |-> "send_to_partner",
                           user |-> NULL, id |-> Len(db.notifications) + 1,
                           row |-> NotificationRow(pid, channel)]]
            /\ nreq' = nreq + 1
            /\ UNCHANGED response

\* SendOutcome with a fault: a missing Telegram configuration is not caught
SendOutcomeNoConfigPending(d, n, ok) ==
    IF n.channel = "telegram" /\ ~ActiveConfig(d, n.partner)
    THEN n
    ELSE IF n.channel \notin {"telegram", "email"}
    THEN [n EXCEPT !.status = "failed", !.error_message = "unsupported_channel"]
    ELSE IF ok
    THEN [n EXCEPT !.status = "sent", !.sent_at = Now]
    ELSE [n EXCEPT !.status = "failed", !.sent_at = NULL,
                   !.error_message = "send_error"]

\* the try block of send_to_partner on the instance n: the channel service
\* is chosen, send() returns ok, and the instance is given its final status;
\* TelegramConfig.DoesNotExist and every other exception give 'failed'
SendOutcome(d, n, ok) ==
    IF n.channel = "telegram" /\ ~ActiveConfig(d, n.partner)
    THEN [n EXCEPT !.status = "failed", !.error_message = "config_not_found"]
    ELSE IF /\ n.channel = "telegram"
            /\ ActiveToken(d, n.partner) \in {NULL, ""}
            /\ GlobalBotToken = NULL
    THEN [n EXCEPT !.status = "failed", !.error_message = "token_needed"]
    ELSE IF n.channel \notin {"telegram", "email"}
    THEN [n EXCEPT !.status = "failed", !.error_message = "unsupported_channel"]
    ELSE IF ok
    THEN [n EXCEPT !.status = "sent", !.sent_at = Now]
    ELSE [n EXCEPT !.status = "failed", !.sent_at = NULL,
                   !.error_message = "send_error"]

\* send_to_partner, the rest: the send and notification.save(), which writes
\* every column of the record; the record is returned. When the partner was
\* deleted meanwhile the record is gone and both save() calls raise
SendFinish(s, ok) ==
    /\ req[s].pc = "notify"
    /\ IF req[s].row.partner \notin PartnerIds(db)
       THEN Finish(s, 500, {"detail"}, db)
       ELSE Finish(s, 200, NoKeys,
                   [db EXCEPT !.notifications[req[s].id] =
                                  SendOutcome(db, req[s].row, ok)])

\* TelegramConfig rows that exist
ConfigIds(d) == {c \in Ids(d.configs) : d.configs[c] # DeletedConfig}

\* PartnerViewSet.validate_telegram_config: the task is queued with the id
\* of the partner's configuration (validate_telegram_config_task.delay)
ValidateTelegramConfig(s, u, id) ==
    /\ Start(s)
    /\ IF ~is_authenticated(u)
       THEN Refuse(s, "validate_telegram_config", 401, {"detail"})
       ELSE IF id \notin PartnerForUser(db, u)
       THEN Refuse(s, "validate_telegram_config", 404, NoKeys)
       ELSE IF ~check_partner_access(u, db.partners[id])
       THEN Refuse(s, "validate_telegram_config", 403, {"detail"})
       ELSE IF ~\E c \in ConfigIds(db) : db.configs[c].partner = id
       THEN Refuse(s, "validate_telegram_config", 404, {"error"})
       ELSE /\ req' = [req EXCEPT ![s] =
                          [pc |-> "task_queued",
                           op |-> "validate_telegram_config_task",
                           user |-> NULL,
                           id |-> CHOOSE c \in ConfigIds(db) :
                                     db.configs[c].partner = id,
                           row |-> NoRow]]
            /\ response' = Resp("validate_telegram_config", 200,
                                {"message", "task_id", "config_id"})
            /\ nreq' = nreq + 1
            /\ UNCHANGED db

\* validate_telegram_config_task(config_id), first statement:
\* TelegramConfig.objects.get(id=config_id). DoesNotExist is caught by
\* 'except Exception', whose body reads the local name config that was never
\* bound: the task ends with UnboundLocalError
TaskGet(s, config_id) ==
    IF config_id \notin ConfigIds(db)
    THEN /\ req' = [req EXCEPT ![s] = Idle]
         /\ response' = Resp("validate_telegram_config_task", 500,
                             {"UnboundLocalError"})
         /\ UNCHANGED db
    ELSE /\ req' = [req EXCEPT ![s] =
                       [pc |-> "task_validate",
                        op |-> "validate_telegram_config_task",
                        user |-> NULL, id |-> config_id,
                        row |-> db.configs[config_id]]]
         /\ UNCHANGED <<db, response>>

\* the worker starts a queued task
ValidateTaskRun(s) ==
    /\ req[s].pc = "task_queued"
    /\ TaskGet(s, req[s].id)
    /\ UNCHANGED nreq

\* the task called with any config_id
ValidateTaskCall(s, config_id) ==
    /\ Start(s)
    /\ TaskGet(s, config_id)
    /\ nreq' = nreq + 1

\* what the two calls to the Telegram API can give
TelegramOutcomes ==
    {"getme_http_error", "getme_not_ok", "send_http_error", "send_not_ok", "ok"}

\* validate_telegram_config_task, the rest: getMe, the test sendMessage and
\* config.save(), which writes every column of the row. True is returned
\* when both calls report ok, False otherwise. When the row was deleted
\* meanwhile save() inserts it again, the foreign key to the deleted partner
\* raises IntegrityError, and so does the save() of the except block
ValidateTaskFinish(s, outcome) ==
    /\ req[s].pc = "task_validate"
    /\ IF req[s].id \notin ConfigIds(db)
       THEN Finish(s, 500, {"IntegrityError"}, db)
       ELSE IF outcome = "ok"
       THEN Finish(s, 200, {"True"},
                   [db EXCEPT !.configs[req[s].id] =
                       [req[s].row EXCEPT !.validated_at = Now,
                                          !.is_active = TRUE]])
       ELSE Finish(s, 200, {"False"},
                   [db EXCEPT !.configs[req[s].id] =
                       [req[s].row EXCEPT !.is_active = FALSE]])

\* ------------------------------------------------------- user status
\* UserStatusView.get: the body of the answer. partners lists every partner
\* of Partner.objects.for_user(user) with role 'owner' (owned) and then the
\* partner of every membership of PartnerMember.objects.for_user(user) that
\* is not listed yet (member_of)
UserStatus(d, u) ==
    LET user_partners == PartnerForUser(d, u)
        user_memberships == MemberForUser(d, u)
        user_applications == ApplicationForUser(d, u)
    IN [has_partners |-> user_partners # {},
        has_memberships |-> user_memberships # {},
        has_memberships_active |->
            \E m \in user_memberships : d.members[m].is_active,
        has_pending_application |->
            \E a \in user_applications : d.apps[a].status = "pending",
        owned |-> user_partners,
        member_of |-> {d.members[m].partner : m \in user_memberships}
                         \ user_partners]

\* GET /user-status/ (permission_classes = [IsAuthenticated])
UserStatusGet(u) ==
    /\ nreq < MaxRequests
    /\ nreq' = nreq + 1
    /\ UNCHANGED <<db, req>>
    /\ response' = IF ~is_authenticated(u)
                   THEN Resp("user_status", 401, {"detail"})
                   ELSE [op |-> "user_status", code |-> 200, keys |-> NoKeys,
                         data |-> UserStatus(db, u)]

\* ------------------------------------------------------- specifications
Applicants == {"u1"}
Admins == {u \in Users : is_staff(u) /\ is_superuser(u)}
Owners == {"u2"}
One == {"r1"}

\* the application workflow, one request at a time
Next ==
    \/ \E s \in One, u \in Applicants, n \in {"n1"}, i \in Inns, o \in Ogrns,
          e \in Emails, t \in Phones : AppCreateRead(s, u, n, i, o, e, t)
    \/ \E s \in One : AppCreateWrite(s)
    \/ \E s \in One, u \in Users, id \in 1..MaxApps, data \in PatchData :
          AppPatchRead(s, u, id, data)
    \/ \E s \in One, u \in Users, id \in 1..MaxApps, data \in PutData :
          AppPutRead(s, u, id, data)
    \/ \E s \in One : AppSaveWrite(s)
    \/ \E s \in One, fault \in Faults : ApproveWrite(s, fault)
    \/ \E s \in One : RejectWrite(s)
    \/ \E s \in One, x \in Admins, id \in 1..MaxApps : ServiceApprove(s, x, id)
    \/ \E s \in One, x \in Admins, id \in 1..MaxApps, r \in Reasons :
          ServiceReject(s, x, id, r)
    \/ \E s \in One, u \in Owners, n \in {"n1"}, i \in Inns, o \in Ogrns,
          e \in Emails, t \in Phones : PartnerCreateRead(s, u, n, i, o, e, t)
    \/ \E s \in One, u \in Owners, n \in {"n1"}, i \in Inns, o \in Ogrns,
          e \in Emails, t \in Phones : ServiceCreatePartner(s, u, n, i, o, e, t)
    \/ \E s \in One : PartnerCreateWrite(s)

Spec == Init /\ [][Next]_vars

\* bodies of PATCH requests in the interleaved specification
RacePatchData ==
    {[company_name |-> "n2"], [inn |-> "i2", ogrn |-> "o2"],
     [status |-> "approved"], [status |-> "rejected"]}

\* the application workflow and partner creation, two requests interleaved
NextRace ==
    \/ \E s \in Slots, u \in Applicants, i \in Inns, o \in Ogrns :
          AppCreateRead(s, u, "n1", i, o, "e1", "t1")
    \/ \E s \in Slots : AppCreateWrite(s)
    \/ \E s \in Slots, u \in Applicants \cup Admins, id \in 1..MaxApps,
          data \in RacePatchData : AppPatchRead(s, u, id, data)
    \/ \E s \in Slots : AppSaveWrite(s)
    \/ \E s \in Slots : ApproveWrite(s, 0)
    \/ \E s \in Slots : RejectWrite(s)
    \/ \E s \in Slots, u \in Owners, i \in Inns, o \in Ogrns :
          PartnerCreateRead(s, u, "n1", i, o, "e1", "t1")
    \/ \E s \in Slots, u \in Owners, i \in Inns, o \in Ogrns :
          ServiceCreatePartner(s, u, "n1", i, o, "e1", "t1")
    \/ \E s \in Slots : PartnerCreateWrite(s)
    \/ \E s \in Slots, u \in Owners, id \in 1..MaxPartners,
          data \in {[inn |-> i, ogrn |-> o] : i \in Inns, o \in Ogrns} :
          PartnerPatchRead(s, u, id, data)
    \/ \E s \in Slots : PartnerSaveWrite(s)

SpecRace == Init /\ [][NextRace]_vars

\* a manager membership (PartnerMember.ROLE_MANAGER) with the default rights
ManagerRow(pid, u) ==
    [partner |-> pid, user |-> u, role |-> "manager",
     can_manage_members |-> FALSE, can_view_finance |-> FALSE,
     is_active |-> TRUE]

\* INN and OGRN of the partners of a running registry
TaxIds == <<[inn |-> "i1", ogrn |-> "o1"], [inn |-> "i2", ogrn |-> "o2"]>>

\* partner tables of a running registry: rows with distinct INN and OGRN,
\* validated or not
PartnerTables ==
    {[p \in 1..n |-> [PartnerRow("u2", "n1", TaxIds[p].inn, TaxIds[p].ogrn,
                                 "e1", "t1") EXCEPT !.validated = v[p]]] :
        n \in {k \in 1..MaxPartners : k <= Len(TaxIds)}, v \in [1..MaxPartners -> BOOLEAN]}

\* the registry once partners exist: each partner with the director
\* membership of its owner, and u1 a manager of the first partner
InitPickup ==
    /\ \E t \in PartnerTables :
          db = [partners |-> t,
                members |-> [m \in 1..(Len(t) + 1) |->
                               IF m <= Len(t)
                               THEN CleanMember(MemberRow(m, t[m].owner))
                               ELSE ManagerRow(1, "u1")],
                apps |-> <<>>, pps |-> <<>>,
                configs |-> <<>>, notifications |-> <<>>]
    /\ req = [s \in Slots |-> Idle]
    /\ response = Resp("none", 0, NoKeys)
    /\ nreq = 0

\* bodies of PUT and PATCH requests in the pickup-point specification
PickupPatchData ==
    {[name |-> "n2"], [is_active |-> FALSE], [partner |-> 2],
     [partner |-> 1, name |-> "n1"]}

\* pickup points of partners whose validation the admin site switches, one
\* request at a time
NextPickup ==
    \/ \E ids \in SUBSET Ids(db.partners), value \in BOOLEAN :
          AdminMarkValidated(ids, value)
    \/ \E s \in One, u \in Users, pid \in 1..MaxPartners, name \in Names :
          PickupPointCreateRead(s, u, pid, name)
    \/ \E s \in One : PickupPointCreateWrite(s)
    \/ \E s \in One, u \in Users, id \in 1..MaxPickupPoints,
          data \in PickupPatchData : PickupPointUpdateRead(s, u, id, data)
    \/ \E s \in One : PickupPointUpdateWrite(s)
    \/ \E s \in One, u \in Users, id \in 1..MaxPickupPoints, value \in BOOLEAN :
          PickupPointSetActiveRead(s, u, id, value)

SpecPickup == InitPickup /\ [][NextPickup]_vars

\* the registry after two approvals: partner 1 of u2, validated and with a
\* pickup point, and partner 2 of u1, each with the director membership of
\* its owner and its approved application; u1 is also a manager of
\* partner 1, active or not, with or without the right to manage members
InitMembers ==
    /\ \E manage \in BOOLEAN, active \in BOOLEAN :
          db = [partners |->
                    <<[PartnerRow("u2", "n1", "i1", "o1", "e1", "t1")
                          EXCEPT !.validated = TRUE],
                      PartnerRow("u1", "n2", "i2", "o2", "e1", "t1")>>,
                members |->
                    <<CleanMember(MemberRow(1, "u2")),
                      CleanMember(MemberRow(2, "u1")),
                      [ManagerRow(1, "u1") EXCEPT
                          !.can_manage_members = manage,
                          !.is_active = active]>>,
                apps |->
                    <<[AppRow("u2", "n1", "i1", "o1", "e1", "t1") EXCEPT
                          !.status = "approved", !.processed_by = "adm",
                          !.processed_at = Now, !.partner = 1],
                      [AppRow("u1", "n2", "i2", "o2", "e1", "t1") EXCEPT
                          !.status = "approved", !.processed_by = "adm",
                          !.processed_at = Now, !.partner = 2]>>,
                pps |-> <<[partner |-> 1, name |-> "n1", is_active |-> TRUE]>>,
                configs |-> <<>>, notifications |-> <<>>]
    /\ req = [s \in Slots |-> Idle]
    /\ response = Resp("none", 0, NoKeys)
    /\ nreq = 0

\* bodies of POST requests on /partner-members/
MemberCreateData ==
    {[partner |-> 1, user |-> "stf", role |-> "employee"],
     [partner |-> 2, user |-> "stf", role |-> "employee"],
     [partner |-> 1, user |-> "u2", role |-> "employee"],
     [user |-> "stf", role |-> "employee"]}

\* bodies of PATCH requests on /partner-members/{id}/
MemberPatchData ==
    {[can_manage_members |-> TRUE], [can_manage_members |-> FALSE]}

\* the memberships the requests address: the manager's and the created one
MemberTargets == 3..MaxMembers

\* the member API, one request at a time
NextMembers ==
    \/ \E s \in One, u \in Requesters, data \in MemberCreateData :
          MemberCreateRead(s, u, data)
    \/ \E s \in One : MemberCreateWrite(s)
    \/ \E s \in One, u \in Requesters, id \in MemberTargets,
          data \in MemberPatchData :
          MemberUpdateRead(s, u, id, data, TRUE)
    \/ \E s \in One, u \in Requesters, id \in MemberTargets, value \in BOOLEAN :
          MemberSetActiveRead(s, u, id, value)
    \/ \E s \in One : MemberSaveWrite(s)

SpecMembers == InitMembers /\ [][NextMembers]_vars

\* bodies of PATCH requests that name is_active
MemberActiveData == {[is_active |-> TRUE], [is_active |-> FALSE]}

\* activation of members: the activate and deactivate actions and PATCH, one
\* request at a time
NextMemberActive ==
    \/ \E s \in One, u \in Requesters, id \in MemberTargets,
          data \in MemberActiveData :
          MemberUpdateRead(s, u, id, data, TRUE)
    \/ \E s \in One, u \in Requesters, id \in 1..MaxMembers, value \in BOOLEAN :
          MemberSetActiveRead(s, u, id, value)
    \/ \E s \in One : MemberSaveWrite(s)

SpecMemberActive == InitMembers /\ [][NextMemberActive]_vars

\* bodies of PATCH requests in the partner specification
PartnerRenameData == {[name |-> "n2"], [inn |-> "i2", ogrn |-> "o1"]}

\* primary keys the requests of the partner specification address: the
\* stored partners and one that was never stored
PartnerTargets == 1..3

\* retrieve, update and delete of partners, one request at a time
NextPartners ==
    \/ \E s \in One, u \in Requesters, id \in PartnerTargets :
          PartnerRetrieve(s, u, id)
    \/ \E s \in One, u \in Requesters, id \in PartnerTargets,
          data \in PartnerRenameData : PartnerPatchRead(s, u, id, data)
    \/ \E s \in One : PartnerSaveWrite(s)
    \/ \E s \in One, u \in Requesters, id \in PartnerTargets :
          PartnerDeleteRead(s, u, id)
    \/ \E s \in One : PartnerDeleteWrite(s)

SpecPartners == InitMembers /\ [][NextPartners]_vars

\* bodies of PUT and PATCH requests in the pickup-point access specification
PickupCrudData == {[name |-> "n2"], [is_active |-> FALSE]}

\* create, update, delete, activate and deactivate of pickup points by every
\* account, one request at a time
NextPickupCrud ==
    \/ \E s \in One, u \in Users, pid \in 1..2, name \in Names :
          PickupPointCreateRead(s, u, pid, name)
    \/ \E s \in One : PickupPointCreateWrite(s)
    \/ \E s \in One, u \in Users, id \in 1..MaxPickupPoints,
          data \in PickupCrudData : PickupPointUpdateRead(s, u, id, data)
    \/ \E s \in One : PickupPointUpdateWrite(s)
    \/ \E s \in One, u \in Users, id \in 1..MaxPickupPoints, value \in BOOLEAN :
          PickupPointSetActiveRead(s, u, id, value)
    \/ \E s \in One, u \in Users, id \in 1..MaxPickupPoints :
          PickupPointDeleteRead(s, u, id)
    \/ \E s \in One : PickupPointDeleteWrite(s)

SpecPickupCrud == InitMembers /\ [][NextPickupCrud]_vars

\* bodies of POST requests in the role specification
MemberRoleCreateData ==
    {[partner |-> 1, user |-> "stf", role |-> r] :
        r \in {"employee", "director", "admin"}}

\* bodies of PUT and PATCH requests in the role specification
MemberRoleUpdateData ==
    {[role |-> "director"],
     [role |-> "admin", can_manage_members |-> FALSE],
     [partner |-> 1, role |-> "director"],
     [partner |-> 1, role |-> "employee"]}

\* memberships created and updated with every kind of role through the
\* member API, one request at a time
NextMemberRoles ==
    \/ \E s \in One, u \in Owners \cup Admins, data \in MemberRoleCreateData :
          MemberCreateRead(s, u, data)
    \/ \E s \in One : MemberCreateWrite(s)
    \/ \E s \in One, u \in Owners \cup Admins, id \in MemberTargets,
          data \in MemberRoleUpdateData, partial \in BOOLEAN :
          MemberUpdateRead(s, u, id, data, partial)
    \/ \E s \in One : MemberSaveWrite(s)

SpecMemberRoles == InitMembers /\ [][NextMemberRoles]_vars

\* create and rename requests for the pickup points of partner 1 by its
\* owner and by a superuser, two requests at a time
NextPickupRace ==
    \/ \E s \in Slots, u \in Owners \cup Admins, name \in Names :
          PickupPointCreateRead(s, u, 1, name)
    \/ \E s \in Slots : PickupPointCreateWrite(s)
    \/ \E s \in Slots, u \in Owners \cup Admins, id \in 1..MaxPickupPoints,
          name \in Names : PickupPointUpdateRead(s, u, id, [name |-> name])
    \/ \E s \in Slots : PickupPointUpdateWrite(s)

SpecPickupRace == InitMembers /\ [][NextPickupRace]_vars

\* notifications sent to the partners while their owners and a superuser
\* set the Telegram configurations, two sends at a time
NextNotify ==
    \/ \E u \in Owners \cup Applicants \cup Admins, id \in 1..2, active \in BOOLEAN :
          SetTelegramConfig(u, id, active)
    \/ \E s \in Slots, pid \in PartnerTargets, channel \in Channels :
          SendCreate(s, pid, channel)
    \/ \E s \in Slots, ok \in BOOLEAN : SendFinish(s, ok)

SpecNotify == InitMembers /\ [][NextNotify]_vars

\* validation of the Telegram configurations while the partners are
\* configured and deleted
NextValidate ==
    \/ \E u \in Owners \cup Applicants, id \in 1..2, active \in BOOLEAN :
          SetTelegramConfig(u, id, active)
    \/ \E s \in Slots, u \in Owners \cup Applicants, id \in 1..2 :
          ValidateTelegramConfig(s, u, id)
    \/ \E s \in Slots : ValidateTaskRun(s)
    \/ \E s \in Slots, config_id \in 1..2 : ValidateTaskCall(s, config_id)
    \/ \E s \in Slots, outcome \in TelegramOutcomes : ValidateTaskFinish(s, outcome)
    \/ \E s \in Slots, u \in Owners, id \in 1..2 : PartnerDeleteRead(s, u, id)
    \/ \E s \in Slots : PartnerDeleteWrite(s)

SpecValidate == InitMembers /\ [][NextValidate]_vars

\* the status view while applications are submitted and processed, one
\* request at a time
NextStatus ==
    \/ \E s \in One, u \in Applicants \cup Owners, i \in Inns, o \in Ogrns :
          AppCreateRead(s, u, "n1", i, o, "e1", "t1")
    \/ \E s \in One : AppCreateWrite(s)
    \/ \E s \in One, x \in Admins, id \in 1..MaxApps,
          data \in {[status |-> "approved"], [status |-> "rejected"]} :
          AppPatchRead(s, x, id, data)
    \/ \E s \in One : ApproveWrite(s, 0)
    \/ \E s \in One : RejectWrite(s)
    \/ \E u \in Requesters : UserStatusGet(u)

SpecStatus == Init /\ [][NextStatus]_vars

\* bodies of POST requests on /partners/ that also name read-only fields
PartnerCreateBodies ==
    {[name |-> "n2", inn |-> "i2", ogrn |-> "o2", email |-> "e1"],
     [name |-> "n2", inn |-> "i2", ogrn |-> "o2", email |-> "e1",
      owner |-> "u2", validated |-> TRUE, validated_at |-> Now],
     [name |-> "n2", inn |-> "i1", ogrn |-> "o2", phone |-> "t1",
      validated |-> TRUE]}

\* bodies of PUT and PATCH requests on a partner that name read-only fields
PartnerFrameData ==
    {[name |-> "n2"],
     [owner |-> "u1"],
     [name |-> "n2", validated |-> TRUE, validated_at |-> Now],
     [validated |-> FALSE]}

\* partners created and updated through the API while the admin site marks
\* partners validated or not, one API request at a time
NextPartnerFrame ==
    \/ \E ids \in SUBSET Ids(db.partners), value \in BOOLEAN :
          AdminMarkValidated(ids, value)
    \/ \E s \in One, u \in Applicants \cup Owners, data \in PartnerCreateBodies :
          PartnerCreateBodyRead(s, u, data)
    \/ \E s \in One : PartnerCreateWrite(s)
    \/ \E s \in One, u \in Owners \cup Admins, id \in 1..MaxPartners,
          data \in PartnerFrameData : PartnerPatchRead(s, u, id, data)
    \/ \E s \in One : PartnerSaveWrite(s)

SpecPartnerFrame == InitPickup /\ [][NextPartnerFrame]_vars

\* ------------------------------------------------------- properties
\* the write phase of the request in slot s ends in this step
Ends(s, pc) == req[s].pc = pc /\ req'[s].pc = "idle"

\* the request of this step ended in its read phase with one of the codes
Refused(codes) == req' = req /\ db' = db /\ response'.code \in codes

\* this step is the read phase of a request of kind op
ReadStep(op) ==
    /\ nreq' = nreq + 1
    /\ \/ req' = req /\ response'.op = op
       \/ \E s \in Slots : req[s].pc = "idle" /\ req'[s].op = op

\* C1: the status of an application changes only from 'pending' to
\* 'approved' or 'rejected', and never changes after that
C1_StatusOnlyLeavesPending ==
    [][\A a \in Ids(db.apps) :
          db'.apps[a].status # db.apps[a].status
          => /\ db.apps[a].status = "pending"
             /\ db'.apps[a].status \in {"approved", "rejected"}]_vars

\* C2: approve_partner_application is all or nothing: when it fails the
\* database is as before the call (no partner, no membership, the application
\* row untouched); when it succeeds the new partner, its director membership,
\* the status 'approved' and the partner link are all stored
C2_ApprovalAllOrNothing ==
    [][\A s \in Slots :
          Ends(s, "approve")
          => \/ response'.code # 200 /\ db' = db
             \/ /\ response'.code = 200
                /\ Len(db'.partners) = Len(db.partners) + 1
                /\ Len(db'.members) = Len(db.members) + 1
                /\ db'.members[Len(db'.members)].partner = Len(db'.partners)
                /\ db'.apps[req[s].id].status = "approved"
                /\ db'.apps[req[s].id].partner = Len(db'.partners)]_vars

\* C2 witness: an approval failed after its first statements and the
\* application is still pending, with as many partners as memberships
C2_Witness ==
    /\ response = Resp("svc_approve", 500, {"detail"})
    /\ \E a \in Ids(db.apps) :
          db.apps[a].status = "pending" /\ db.apps[a].partner = NoId
    /\ Len(db.partners) = Len(db.members)

\* C3: once an application is stored as approved, no further approval of it
\* succeeds, so that at most one partner and one director membership are
\* created for it
C3_SecondApprovalRefused ==
    [][\A s \in Slots :
          (Ends(s, "approve") /\ db.apps[req[s].id].status = "approved")
          => /\ response'.code = 400
             /\ db' = db]_vars

\* C4: approve and reject called on an application that is not pending raise
\* a validation error on 'status' and change nothing
C4_NotPendingRefused ==
    [][(ReadStep("svc_approve") \/ ReadStep("svc_reject") \/ ReadStep("app_patch"))
          => \A s \in Slots, x \in Admins, id \in Ids(db.apps) :
                (/\ db.apps[id].status # "pending"
                 /\ \/ ServiceApprove(s, x, id)
                    \/ \E r \in Reasons : ServiceReject(s, x, id, r)
                    \/ AppPatchRead(s, x, id, [status |-> "approved"])
                    \/ AppPatchRead(s, x, id, [status |-> "rejected"]))
                => /\ Refused({400})
                   /\ response'.keys = {"status"}]_vars

\* C4 witness: an approval of a processed application was refused
C4_Witness ==
    /\ response = Resp("svc_approve", 400, {"status"})
    /\ \E a \in Ids(db.apps) : db.apps[a].status \in {"approved", "rejected"}

C6_NonStaffNeverChangesStatus ==
    [][\A s \in Slots :
          (req[s].pc # "idle" /\ req'[s].pc = "idle" /\ ~is_staff(req[s].user))
          => \A a \in Ids(db.apps) : db'.apps[a].status = db.apps[a].status]_vars

\* C7: every PATCH and PUT of a user without is_staff on an application that
\* is not pending is refused and changes nothing
C7_ProcessedApplicationFrozen ==
    [][(ReadStep("app_patch") \/ ReadStep("app_put"))
          => \A s \in Slots, u \in Users, id \in Ids(db.apps) :
                (/\ ~is_staff(u)
                 /\ db.apps[id].status # "pending"
                 /\ \/ \E data \in PatchData : AppPatchRead(s, u, id, data)
                    \/ \E data \in PutData : AppPutRead(s, u, id, data))
                => Refused({400, 403, 404})]_vars

\* C8: a create request of a user who has a pending application is refused
\* with a validation error and stores nothing; a user without one, sending
\* valid data, gets an application stored as 'pending' and as their own
C8_OnePendingOnCreate ==
    [][/\ ReadStep("app_create")
          => \A s \in Slots, u \in Users, n \in Names, i \in Inns, o \in Ogrns :
                AppCreateRead(s, u, n, i, o, "e1", "t1")
                => IF \E a \in Ids(db.apps) : /\ db.apps[a].user = u
                                                /\ db.apps[a].status = "pending"
                   THEN Refused({400})
                   ELSE IF AppUserErrors(db, [inn |-> i, ogrn |-> o], u, NoId) # {}
                   THEN Refused({400})
                   ELSE /\ req'[s].pc = "app_insert"
                        /\ req'[s].row.user = u
                        /\ req'[s].row.status = "pending"
       /\ \A s \in Slots :
             Ends(s, "app_insert")
             => /\ response'.code = 201
                /\ db'.apps = Append(db.apps, req[s].row)
                /\ req[s].row.user = req[s].user
                /\ req[s].row.status = "pending"]_vars

\* C8 witness: a user whose earlier application was processed has created a
\* new, pending one
C8_Witness ==
    /\ response = Resp("app_create", 201, NoKeys)
    /\ \E a, b \in Ids(db.apps) :
          /\ a # b
          /\ db.apps[a].user = db.apps[b].user
          /\ db.apps[a].status \in {"approved", "rejected"}
          /\ db.apps[b].status = "pending"

\* C9: a pickup point is created or updated through the API only when its
\* partner is validated: a create or update request of a user with access,
\* for a partner that is not validated, is refused with a validation error on
\* 'partner' and stores nothing, and a request that goes on to its INSERT or
\* UPDATE has found the partner validated
C9_PickupPointNeedsValidatedPartner ==
    [][/\ ReadStep("pp_create")
          => \A s \in Slots, u \in Users, pid \in Ids(db.partners), name \in Names :
                (/\ ~db.partners[pid].validated
                 /\ PickupPointCreateRead(s, u, pid, name))
                => Refused({400}) /\ "partner" \in response'.keys
       /\ ReadStep("pp_update")
          => \A s \in Slots, u \in Users, id \in Ids(db.pps),
                data \in PickupPatchData :
                (/\ check_pickup_point_crud_access(db, u, db.pps[id])
                 /\ Merge(db.pps[id], data).partner \in Ids(db.partners)
                 /\ ~db.partners[Merge(db.pps[id], data).partner].validated
                 /\ PickupPointUpdateRead(s, u, id, data))
                => Refused({400}) /\ "partner" \in response'.keys
       /\ \A s \in Slots :
             (/\ req[s].pc = "idle"
              /\ req'[s].op \in {"pp_create", "pp_update"})
             => db.partners[req'[s].row.partner].validated]_vars

\* C9 witness: a partner that has a pickup point lost its validation, and an
\* update of a pickup point by a user with access was refused on 'partner'
C9_Witness ==
    /\ response = Resp("pp_update", 400, {"partner"})
    /\ Len(db.pps) > 0
    /\ Len(db.partners) = MaxPartners
    /\ \A p \in Ids(db.partners) : ~db.partners[p].validated

\* C10: no two partners share an INN and no two share an OGRN, whatever the
\* interleaving of the requests that create or update partners; a write that
\* meets a taken INN or OGRN ends with a validation error and stores nothing
C10_PartnerTaxIdsUnique ==
    /\ [](\A p, q \in Ids(db.partners) :
            p # q => /\ db.partners[p].inn # db.partners[q].inn
                     /\ db.partners[p].ogrn # db.partners[q].ogrn)
    /\ [][\A s \in Slots :
            (/\ \/ Ends(s, "partner_insert")
                \/ Ends(s, "approve")
                \/ Ends(s, "partner_save")
             /\ PartnerUniqueViolation(db, IF req[s].pc = "approve"
                                           THEN PartnerFromApp(req[s].row)
                                           ELSE req[s].row,
                                       IF req[s].pc = "partner_save"
                                       THEN req[s].id ELSE NoId))
            => response'.code = 400 /\ db' = db]_vars

\* C10 witness: a partner creation passed validation, lost the race for its
\* INN or OGRN and was answered with a validation error
C10_Witness ==
    /\ response = Resp("partner_create", 400, {"non_field_errors"})
    /\ Len(db.partners) > 0

\* C11: in every state and for every requester, the rows each for_user
\* filter selects are exactly the rows the matching check_*_access grants,
\* for partners, members, applications and pickup points
C11_FilterMatchesCheck ==
    \A u \in Requesters :
        /\ \A p \in PartnerIds(db) :
              p \in PartnerForUser(db, u)
                  <=> check_partner_access(u, db.partners[p])
        /\ \A m \in MemberIds(db) :
              m \in MemberForUser(db, u)
                  <=> check_partner_member_access(db, u, db.members[m])
        /\ \A a \in Ids(db.apps) :
              a \in ApplicationForUser(db, u)
                  <=> check_partner_application_access(u, db.apps[a])
        /\ \A q \in PickupPointIds(db) :
              q \in PickupPointForUser(db, u)
                  <=> check_pickup_point_access(db, u, db.pps[q])

\* u1 holds a managing membership of partner 1 that was deactivated through
\* the API: u1 sees its own membership but not the director's
C11_Witness ==
    /\ response.op = "member_deactivate" /\ response.code = 200
    /\ db.members[3].can_manage_members /\ ~db.members[3].is_active
    /\ 3 \in MemberForUser(db, "u1")
    /\ 1 \notin MemberForUser(db, "u1")
    /\ 1 \notin PickupPointForUser(db, "u1")

\* the partners C12 names for a requester: all for a superuser, the owned
\* ones for any other account, none without authentication
OwnPartners(u) ==
    IF ~is_authenticated(u) THEN {}
    ELSE IF is_superuser(u) THEN PartnerIds(db)
    ELSE {p \in PartnerIds(db) : db.partners[p].owner = u}

\* a retrieve, update or delete request of a requester among us for a
\* partner outside the requester's set ends with code and changes nothing
OutsideRefused(us, code) ==
    /\ ReadStep("partner_retrieve")
       => \A s \in Slots, u \in us, id \in PartnerTargets :
             (id \notin OwnPartners(u) /\ PartnerRetrieve(s, u, id))
             => Refused({code})
    /\ ReadStep("partner_patch")
       => \A s \in Slots, u \in us, id \in PartnerTargets,
             data \in PartnerRenameData :
             (id \notin OwnPartners(u) /\ PartnerPatchRead(s, u, id, data))
             => Refused({code})
    /\ ReadStep("partner_delete")
       => \A s \in Slots, u \in us, id \in PartnerTargets :
             (id \notin OwnPartners(u) /\ PartnerDeleteRead(s, u, id))
             => Refused({code})

\* C12 as stated: Partner.objects.for_user(u) is all partners for a
\* superuser, the partners u owns for any other account (staff included) and
\* none for an unauthenticated requester; a retrieve, update or delete
\* request for a partner outside this set yields 404 and changes nothing
C12_OutsideSetIs404 ==
    /\ [](\A u \in Requesters : PartnerForUser(db, u) = OwnPartners(u))
    /\ [][OutsideRefused(Requesters, 404)]_vars

\* C12 amended: the same visibility; the request of an authenticated
\* requester for a partner outside the set yields 404, the request of an
\* unauthenticated requester yields 401, and neither changes anything
C12_OutsideSetRefused ==
    /\ [](\A u \in Requesters : PartnerForUser(db, u) = OwnPartners(u))
    /\ [][/\ OutsideRefused(Users, 404)
          /\ OutsideRefused({Anonymous}, 401)]_vars

\* the staff account asked to delete the partner of u1 after the partner of
\* u2 was deleted by its owner: 404, and the partner of u1 is still there
C12_Witness ==
    /\ response = Resp("partner_delete", 404, NoKeys)
    /\ PartnerIds(db) = {2}
    /\ PartnerForUser(db, "stf") = {}
    /\ PartnerForUser(db, "u1") = {2}
    /\ PartnerForUser(db, "adm") = {2}

\* C13: PartnerMember.objects.for_user(u) is, for a non-superuser, exactly
\* the memberships whose partner u owns, or whose user is u, or whose partner
\* is one in which u has an active membership with can_manage_members; a
\* superuser gets every membership and an unauthenticated requester none
C13_MemberVisibility ==
    \A u \in Requesters :
        MemberForUser(db, u) =
            IF ~is_authenticated(u) THEN {}
            ELSE IF is_superuser(u) THEN MemberIds(db)
            ELSE {m \in MemberIds(db) :
                    \/ db.partners[db.members[m].partner].owner = u
                    \/ db.members[m].user = u
                    \/ \E k \in MemberIds(db) :
                          /\ db.members[k].user = u
                          /\ db.members[k].partner = db.members[m].partner
                          /\ db.members[k].is_active
                          /\ db.members[k].can_manage_members}

\* a membership of the staff account was created in partner 1: the staff
\* account sees only its own, u1 sees partner 1 as an active manager with
\* can_manage_members and partner 2 as its owner
C13_Witness ==
    /\ Len(db.members) = 4
    /\ db.members[4].user = "stf" /\ db.members[4].partner = 1
    /\ MemberForUser(db, "stf") = {4}
    /\ db.members[3].is_active /\ db.members[3].can_manage_members
    /\ db.members[3].role = "manager"
    /\ MemberForUser(db, "u1") = {1, 2, 3, 4}
    /\ MemberForUser(db, Anonymous) = {}

\* the requesters C14 and C15 name for partner pid: a superuser, the owner,
\* or an active member of pid with can_manage_members
MayManage(u, pid) ==
    /\ is_authenticated(u)
    /\ \/ is_superuser(u)
       \/ db.partners[pid].owner = u
       \/ \E k \in MemberIds(db) :
             /\ db.members[k].user = u
             /\ db.members[k].partner = pid
             /\ db.members[k].is_active
             /\ db.members[k].can_manage_members

\* C14: an activate or deactivate request on a membership goes on to its
\* save only when the requester is a superuser, the owner of the partner or
\* an active member of it with can_manage_members, and the save changes
\* is_active of that membership and nothing else; the request of any other
\* requester, the member itself included, is refused and changes nothing
C14_SetActiveNeedsManagement ==
    [][/\ (ReadStep("member_activate") \/ ReadStep("member_deactivate"))
          => \A s \in Slots, u \in Requesters, id \in 1..MaxMembers,
                value \in BOOLEAN :
                MemberSetActiveRead(s, u, id, value)
                => IF id \in MemberIds(db) /\ MayManage(u, db.members[id].partner)
                   THEN /\ db' = db
                        /\ req'[s].pc = "member_save"
                        /\ req'[s].id = id
                        /\ req'[s].row = [db.members[id] EXCEPT !.is_active = value]
                   ELSE Refused({400, 401, 403, 404})
       /\ \A s \in Slots :
             (/\ Ends(s, "member_save")
              /\ req[s].op \in {"member_activate", "member_deactivate"})
             => db' = [db EXCEPT !.members[req[s].id].is_active =
                                     (req[s].op = "member_activate")]]_vars

\* u1, an active manager of partner 1 without can_manage_members, asked to
\* deactivate its own membership and was refused
C14_Witness ==
    /\ response = Resp("member_deactivate", 400, {"detail"})
    /\ Len(db.members) = 3
    /\ db.members[3].user = "u1"
    /\ db.members[3].is_active /\ ~db.members[3].can_manage_members

\* C15: a request to create a member of partner p with otherwise valid data
\* goes on to its INSERT when the requester is a superuser, the owner of p
\* or an active member of p with can_manage_members, and is refused without
\* creating a member for any other requester
C15_ManagersCreateMembers ==
    [][ReadStep("member_create")
          => \A s \in Slots, u \in Requesters, data \in MemberCreateData :
                (/\ "partner" \in DOMAIN data
                 /\ data.partner \in PartnerIds(db)
                 /\ MemberCleanErrors(db, Merge(MemberDefaults, data)) = {}
                 /\ MemberCreateRead(s, u, data))
                => IF MayManage(u, data.partner)
                   THEN /\ db' = db
                        /\ req'[s].pc = "member_insert"
                        /\ req'[s].row.partner = data.partner
                   ELSE Refused({400, 401, 403})]_vars

\* the requesters C16 and C17 name for partner pid: its owner, staff and
\* superusers
MayChangePickupPoints(u, pid) ==
    is_superuser(u) \/ is_staff(u) \/ db.partners[pid].owner = u

\* C16: the owner of a validated partner, staff and superusers can create,
\* update, delete, activate and deactivate its pickup points: each such
\* request with valid data goes on to its write
C16_OwnerStaffSuperuserCrud ==
    [][/\ ReadStep("pp_create")
          => \A s \in Slots, u \in Users, pid \in PartnerIds(db), name \in Names :
                (/\ MayChangePickupPoints(u, pid)
                 /\ db.partners[pid].validated
                 /\ ~PickupPointNameExists(db, pid, name, NoId)
                 /\ PickupPointCreateRead(s, u, pid, name))
                => req'[s].pc = "pp_insert"
       /\ ReadStep("pp_update")
          => \A s \in Slots, u \in Users, id \in PickupPointIds(db),
                data \in PickupCrudData :
                (/\ MayChangePickupPoints(u, db.pps[id].partner)
                 /\ db.partners[db.pps[id].partner].validated
                 /\ ~PickupPointNameExists(db, db.pps[id].partner,
                                           Merge(db.pps[id], data).name, id)
                 /\ PickupPointUpdateRead(s, u, id, data))
                => req'[s].pc = "pp_save"
       /\ ReadStep("pp_delete")
          => \A s \in Slots, u \in Users, id \in PickupPointIds(db) :
                (/\ MayChangePickupPoints(u, db.pps[id].partner)
                 /\ db.partners[db.pps[id].partner].validated
                 /\ PickupPointDeleteRead(s, u, id))
                => req'[s].pc = "pp_delete"
       /\ (ReadStep("pp_activate") \/ ReadStep("pp_deactivate"))
          => \A s \in Slots, u \in Users, id \in PickupPointIds(db),
                value \in BOOLEAN :
                (/\ MayChangePickupPoints(u, db.pps[id].partner)
                 /\ db.partners[db.pps[id].partner].validated
                 /\ PickupPointSetActiveRead(s, u, id, value))
                => req'[s].pc = "pp_save"]_vars

\* C17: an update, delete, activate or deactivate request of an account that
\* is not the owner of the pickup point's partner, staff or a superuser is
\* refused, and the pickup points and all their fields stay as they were; an
\* active member of the partner is among these accounts
C17_OthersNeverChangePickupPoints ==
    [][/\ ReadStep("pp_update")
          => \A s \in Slots, u \in Users, id \in PickupPointIds(db),
                data \in PickupCrudData :
                (/\ ~MayChangePickupPoints(u, db.pps[id].partner)
                 /\ PickupPointUpdateRead(s, u, id, data))
                => Refused({403, 404})
       /\ ReadStep("pp_delete")
          => \A s \in Slots, u \in Users, id \in PickupPointIds(db) :
                (/\ ~MayChangePickupPoints(u, db.pps[id].partner)
                 /\ PickupPointDeleteRead(s, u, id))
                => Refused({403, 404})
       /\ (ReadStep("pp_activate") \/ ReadStep("pp_deactivate"))
          => \A s \in Slots, u \in Users, id \in PickupPointIds(db),
                value \in BOOLEAN :
                (/\ ~MayChangePickupPoints(u, db.pps[id].partner)
                 /\ PickupPointSetActiveRead(s, u, id, value))
                => Refused({403, 404})
       /\ \A s \in Slots :
             (req[s].pc \in {"pp_save", "pp_delete"} /\ req'[s].pc = "idle")
             => /\ MayChangePickupPoints(req[s].user, db.pps[req[s].id].partner)
                /\ \A q \in Ids(db.pps) : q # req[s].id => db'.pps[q] = db.pps[q]]_vars

\* u1, an active member of partner 1 who sees its pickup point, asked to
\* delete it and got 403; the pickup point is still there
C17_Witness ==
    /\ response = Resp("pp_delete", 403, NoKeys)
    /\ db.members[3].user = "u1" /\ db.members[3].is_active
    /\ 1 \in PickupPointForUser(db, "u1")
    /\ db.partners[db.pps[1].partner].owner # "u1"

\* C18: every stored membership with role 'director' or 'admin', created by
\* an approval or created or updated through the member API (POST, PUT,
\* PATCH), has can_manage_members and can_view_finance true
C18_DirectorsAndAdminsHaveRights ==
    \A m \in MemberIds(db) :
        db.members[m].role \in {"director", "admin"}
        => db.members[m].can_manage_members /\ db.members[m].can_view_finance

\* C19: in every state no two pickup points of the same partner have the
\* same name, whatever the interleaving of the create and rename requests
C19_PickupPointNamesUnique ==
    \A p \in PickupPointIds(db), q \in PickupPointIds(db) :
        (p # q /\ db.pps[p].partner = db.pps[q].partner)
        => db.pps[p].name # db.pps[q].name

\* C20: for an existing partner send_to_partner creates exactly one
\* Notification record and returns it without raising; its final status is
\* 'sent' with sent_at set exactly when the channel service was called and
\* reported success, and otherwise 'failed' with sent_at null and a
\* non-empty error_message (unsupported channel and Telegram without an
\* active configuration included); it is never left 'pending'
C20_SendToPartnerOutcome ==
    [][\A s \in Slots :
          /\ (req[s].pc = "idle" /\ req'[s].pc = "notify")
             => /\ req'[s].row.partner \in PartnerIds(db)
                /\ Len(db'.notifications) = Len(db.notifications) + 1
                /\ req'[s].id = Len(db'.notifications)
                /\ db'.notifications[req'[s].id] = req'[s].row
                /\ \A n \in Ids(db.notifications) :
                      db'.notifications[n] = db.notifications[n]
          /\ Ends(s, "notify")
             => \A ok \in BOOLEAN :
                   (req[s].row.partner \in PartnerIds(db) /\ SendFinish(s, ok))
                   => LET n == db'.notifications[req[s].id]
                          called ==
                              \/ req[s].row.channel = "email"
                              \/ /\ req[s].row.channel = "telegram"
                                 /\ ActiveConfig(db, req[s].row.partner)
                      IN /\ response' = Resp("send_to_partner", 200, NoKeys)
                         /\ Len(db'.notifications) = Len(db.notifications)
                         /\ \A m \in Ids(db.notifications) :
                               m # req[s].id
                               => db'.notifications[m] = db.notifications[m]
                         /\ n.partner = req[s].row.partner
                         /\ n.channel = req[s].row.channel
                         /\ n.status \in {"sent", "failed"}
                         /\ n.status = "sent" <=> (called /\ ok)
                         /\ n.status = "sent"
                            => n.sent_at # NULL
                         /\ n.status = "failed"
                            => /\ n.sent_at = NULL
                               /\ n.error_message \notin {NULL, ""}]_vars

\* two sends have returned while a Telegram configuration was inactive: a
\* Telegram one that found no active configuration and one that was sent
C20_Witness ==
    /\ response = Resp("send_to_partner", 200, NoKeys)
    /\ \A s \in Slots : req[s].pc = "idle"
    /\ Len(db.notifications) = 2
    /\ db.notifications[1].channel = "telegram"
    /\ db.notifications[1].status = "failed"
    /\ db.notifications[1].error_message = "config_not_found"
    /\ db.notifications[2].status = "sent"
    /\ \E c \in Ids(db.configs) : ~db.configs[c].is_active

\* the fields of a partner an API request must leave alone
Protected(prow) ==
    [owner |-> prow.owner, validated |-> prow.validated,
     validated_at |-> prow.validated_at]

\* C21: a partner created through the API is owned by the requesting user
\* and starts not validated, and no API create or update request changes
\* owner, validated or validated_at of a stored partner, whatever the body
\* says
C21_ProtectedPartnerFields ==
    [][\A s \in Slots :
          /\ (Ends(s, "partner_insert") /\ req[s].op = "partner_create")
             => /\ \A p \in Ids(db.partners) :
                      Protected(db'.partners[p]) = Protected(db.partners[p])
                /\ Len(db'.partners) > Len(db.partners)
                   => Protected(db'.partners[Len(db'.partners)])
                        = [owner |-> req[s].user, validated |-> FALSE,
                           validated_at |-> NULL]
          /\ Ends(s, "partner_save")
             => \A p \in Ids(db.partners) :
                   Protected(db'.partners[p]) = Protected(db.partners[p])]_vars

\* C22: in every state each user has at most one application with status
\* 'pending', also when two create requests of the same user interleave and
\* after any update by staff
C22_OnePendingPerUser ==
    \A a, b \in Ids(db.apps) :
        (/\ db.apps[a].user = db.apps[b].user
         /\ db.apps[a].status = "pending"
         /\ db.apps[b].status = "pending") => a = b

\* C23: an application whose status is 'pending' or 'rejected' has no
\* linked partner, also when an approval and a rejection of the same
\* pending application by two administrators interleave
C23_UnapprovedHasNoPartner ==
    \A a \in Ids(db.apps) :
        db.apps[a].status \in {"pending", "rejected"} => db.apps[a].partner = NoId

\* u is related to partner pid only through memberships without
\* can_manage_members whose role is neither director nor admin
OnlyPlainMember(u, pid) ==
    /\ is_authenticated(u) /\ ~is_superuser(u) /\ ~is_staff(u)
    /\ db.partners[pid].owner # u
    /\ \E k \in MemberIds(db) : db.members[k].user = u /\ db.members[k].partner = pid
    /\ \A k \in MemberIds(db) :
          (db.members[k].user = u /\ db.members[k].partner = pid)
          => /\ ~db.members[k].can_manage_members
             /\ db.members[k].role \notin {"director", "admin"}

\* C24: no request of a user who is only a plain member of a partner (no
\* can_manage_members, role neither director nor admin) gives any membership
\* of that partner, its own included, can_manage_members or
\* can_view_finance, or changes its role
C24_PlainMemberCannotEscalate ==
    [][\A s \in Slots :
          (/\ Ends(s, "member_save")
           /\ req[s].id \in MemberIds(db)
           /\ OnlyPlainMember(req[s].user, db.members[req[s].id].partner))
          => \A m \in MemberIds(db) :
                db.members[m].partner = db.members[req[s].id].partner
                => /\ db'.members[m].can_manage_members
                      => db.members[m].can_manage_members
                   /\ db'.members[m].can_view_finance
                      => db.members[m].can_view_finance
                   /\ db'.members[m].role = db.members[m].role]_vars

\* C25: is_active of a membership changes only through a request of a user
\* with member-management access to its partner (superuser, owner, active
\* member with can_manage_members); a deactivated member does not reactivate
\* itself
C25_ActiveChangesNeedManagement ==
    [][\A s \in Slots :
          Ends(s, "member_save")
          => \A m \in MemberIds(db) :
                db'.members[m].is_active # db.members[m].is_active
                => MayManage(req[s].user, db.members[m].partner)]_vars

\* u is not a superuser, staff or the owner of partner pid, and every
\* membership u has in pid is deactivated
OnlyInactiveMember(u, pid) ==
    /\ is_authenticated(u) /\ ~is_superuser(u) /\ ~is_staff(u)
    /\ db.partners[pid].owner # u
    /\ \E k \in MemberIds(db) : db.members[k].user = u /\ db.members[k].partner = pid
    /\ \A k \in MemberIds(db) :
          (db.members[k].user = u /\ db.members[k].partner = pid)
          => ~db.members[k].is_active

\* C26: while the memberships of a user in partner p are deactivated (and the
\* user is not owner, superuser or staff) the user sees no other member of p
\* and no pickup point of p, still sees its own membership, and its requests
\* to activate or deactivate a member of p are refused and change nothing
C26_InactiveMemberHasNoAccess ==
    /\ [](\A u \in Users, pid \in PartnerIds(db) :
            OnlyInactiveMember(u, pid)
            => /\ \A m \in MemberIds(db) :
                     db.members[m].partner = pid
                     => (m \in MemberForUser(db, u) <=> db.members[m].user = u)
               /\ \A q \in PickupPointIds(db) :
                     db.pps[q].partner = pid => q \notin PickupPointForUser(db, u)
               /\ ~check_partner_member_management_access(db, u, pid))
    /\ [][(ReadStep("member_activate") \/ ReadStep("member_deactivate"))
          => \A s \in Slots, u \in Users, id \in MemberIds(db), value \in BOOLEAN :
                (/\ OnlyInactiveMember(u, db.members[id].partner)
                 /\ MemberSetActiveRead(s, u, id, value))
                => Refused({400, 404})]_vars

\* C26 witness: u1, whose membership in partner 1 is deactivated, asked to
\* activate it and was refused, and partner 1 has a pickup point and another
\* member
C26_Witness ==
    /\ response = Resp("member_activate", 400, {"detail"})
    /\ OnlyInactiveMember("u1", 1)
    /\ \E q \in PickupPointIds(db) : db.pps[q].partner = 1
    /\ \E m \in MemberIds(db) : db.members[m].partner = 1 /\ db.members[m].user # "u1"

\* C27: every user with is_staff sees every application in the list, can
\* retrieve each of them, and its request to approve or reject any pending
\* application is not refused for lack of access (403, 404)
C27_StaffSeeAndProcessAll ==
    /\ [](\A u \in Users :
            is_staff(u)
            => /\ ApplicationForUser(db, u) = Ids(db.apps)
               /\ \A a \in Ids(db.apps) : AppVisible(u, db.apps[a]))
    /\ [][ReadStep("app_patch")
          => \A s \in Slots, u \in Users, id \in Ids(db.apps),
                data \in {[status |-> "approved"], [status |-> "rejected"]} :
                (/\ is_staff(u)
                 /\ db.apps[id].status = "pending"
                 /\ AppPatchRead(s, u, id, data))
                => ~Refused({403, 404})]_vars

\* C28: validate_telegram_config_task always ends by returning True or
\* False and never raises; it returns True, with is_active and validated_at
\* set, only when getMe and the test sendMessage both report ok; otherwise
\* it returns False and the configuration, if there is one, is not active
C28_ValidateTaskReturnsBool ==
    /\ [](response.op = "validate_telegram_config_task"
            => response.keys \in {{"True"}, {"False"}})
    /\ [][\A s \in Slots :
            Ends(s, "task_validate")
            => \A outcome \in TelegramOutcomes :
                  ValidateTaskFinish(s, outcome)
                  => /\ response'.keys = {"True"} <=> outcome = "ok"
                     /\ response'.keys = {"True"}
                        => /\ db'.configs[req[s].id].is_active
                           /\ db'.configs[req[s].id].validated_at = Now
                     /\ response'.keys # {"True"}
                        => (req[s].id \in ConfigIds(db')
                            => ~db'.configs[req[s].id].is_active)]_vars

\* C29: for every authenticated user, superusers included, the status view
\* answers with that user's own state: has_pending_application is true
\* exactly when the user has a pending application, and the partners listed
\* with role 'owner' are exactly the partners the user owns
C29_StatusIsOwnState ==
    [][ReadStep("user_status")
       => \A u \in Users :
             UserStatusGet(u)
             => /\ response'.code = 200
                /\ response'.data.has_pending_application = HasPendingApp(db, u)
                /\ response'.data.owned
                   = {p \in PartnerIds(db) : db.partners[p].owner = u}]_vars

\* C30: the INN of a new application is checked only against the partners
\* and the applications of other users: a create request of a user without
\* a pending application that reuses the INN of the user's own rejected
\* application, with an OGRN nobody uses, is accepted
C30_OwnRejectedInnReusable ==
    [][ReadStep("app_create")
       => \A s \in Slots, u \in Users, i \in Inns, o \in Ogrns :
             (/\ ~HasPendingApp(db, u)
              /\ \E a \in Ids(db.apps) : /\ db.apps[a].user = u
                                          /\ db.apps[a].status = "rejected"
                                          /\ db.apps[a].inn = i
              /\ ~PartnerInnExists(db, i, NoId)
              /\ ~OtherUserAppInnExists(db, i, u)
              /\ ~AppOgrnExists(db, o, NoId)
              /\ AppCreateRead(s, u, "n1", i, o, "e1", "t1"))
             => req'[s].pc = "app_insert"]_vars
====
